---- MODULE Spec2Model ----
(***************************************************************************)
(* ClearSignals AI: the /api/analyze orchestrator (two-stage pipeline with *)
(* single-call fallback), the model gateway callLLM, the Pinecone memory   *)
(* collaborator and the memory passthrough endpoints, as a state machine.  *)
(*                                                                         *)
(* One behaviour is one HTTP request served by one server process.  Every  *)
(* action is the code a handler runs between two awaits: JavaScript runs   *)
(* it to completion, so it is one atomic step.  Outbound calls are logged  *)
(* in `calls` when they are issued and settle, with an outcome chosen by   *)
(* the environment, in a later step.                                       *)
(***************************************************************************)
EXTENDS Integers, Sequences, FiniteSets, TLC

\* ---------------------------------------------------------------- bounds
\* Longest emails / parsed_emails list a model reply carries.
MaxEmails == 2
\* Longest per_email list a model reply carries.
MaxPer == 2

\* ------------------------------------------------------------- JS values
\* The value of `x.length` when x has no length, and of a missing field.
Undefined == 0 - 1

\* A JSON value found in a list-valued field of a model reply: the field is
\* absent (undefined / null), an array, a non-empty string, or an object.
Absent  == [kind |-> "absent", items |-> <<>>]
Arr(s)  == [kind |-> "array",  items |-> s]
Str(s)  == [kind |-> "string", items |-> s]
AnObject == [kind |-> "object", items |-> <<>>]

\* `v || []`
OrEmpty(v) == IF v.kind = "absent" THEN Arr(<<>>) ELSE v

\* `v.length`
JsLength(v) == IF v.kind \in {"array", "string"} THEN Len(v.items) ELSE Undefined

\* Sequences over S of length 0..n.
SeqUpTo(S, n) == UNION {[1..k -> S] : k \in 0..n}

\* Values the model may put in an entry's index / email_num.
IndexValues == {1, 2}

\* An entry of Stage-1's emails: a message, a null entry, or an entry whose
\* body is a truthy non-string (a number, an object).
EmailEntries ==
    [kind : {"msg"}, index : IndexValues]
    \cup {[kind |-> "badbody", index |-> 1], [kind |-> "null", index |-> 0]}
\* An entry of per_email, with its email_num.
PerEntries == [kind : {"analysis"}, index : IndexValues]
\* An entry of the fallback reply's parsed_emails.
SummaryEntries == [kind : {"summary"}, index : {1}]
CharEntry == [kind |-> "char", index |-> 0]

\* The final assessment of a reply: absent, present without a deal_stage,
\* present with one.
Finals == {"absent", "nostage", "staged"}

\* A recovered reply object; a stage reads only its own fields.
EmptyObj ==
    [emails |-> Absent, parsed_emails |-> Absent, per_email |-> Absent, final |-> "absent"]

Stage1Objects ==
    {[EmptyObj EXCEPT !.emails = e] :
        e \in {Absent, AnObject, Str(<<CharEntry, CharEntry>>)}
              \cup {Arr(s) : s \in SeqUpTo(EmailEntries, MaxEmails)}}

PerLists == {Absent} \cup {Arr(s) : s \in SeqUpTo(PerEntries, MaxPer)}

Stage2Objects ==
    {[EmptyObj EXCEPT !.per_email = p, !.final = f] : p \in PerLists, f \in Finals}

FallbackObjects ==
    {[EmptyObj EXCEPT !.parsed_emails = e, !.per_email = p, !.final = f] :
        e \in {Absent} \cup {Arr(s) : s \in SeqUpTo(SummaryEntries, MaxEmails)},
        p \in PerLists, f \in Finals}

\* ---------------------------------------------------------------- JSON text
\* A text is a sequence of characters, each written as a string.  Quote
\* stands for the double quote and Tick for the backtick.
Quote == "''"
Tick == "'"
Backslash == "\\"
LF == "\n"
CR == "\r"
TAB == "\t"
FF == "\f"

\* The characters \s of a regular expression matches, [\x00-\x1f] matches, and
\* JSON.parse skips between tokens, among the characters used here.
RegexSpace == {" ", TAB, LF, CR, FF}
ControlChars == {TAB, LF, CR, FF}
JsonSpace == {" ", TAB, LF, CR}
Digits == {"1", "2"}

\* s.indexOf(c), s.lastIndexOf(c): a 0-based position, or -1.
indexOf(s, c) ==
    IF \E i \in 1..Len(s) : s[i] = c
      THEN (CHOOSE i \in 1..Len(s) : s[i] = c /\ \A j \in 1..(i - 1) : s[j] # c) - 1
      ELSE 0 - 1

lastIndexOf(s, c) ==
    IF \E i \in 1..Len(s) : s[i] = c
      THEN (CHOOSE i \in 1..Len(s) : s[i] = c /\ \A j \in (i + 1)..Len(s) : s[j] # c) - 1
      ELSE 0 - 1

\* s.slice(from, to), for 0 <= from and 0 <= to.
slice(s, from, to) == SubSeq(s, from + 1, IF to < Len(s) THEN to ELSE Len(s))

StartsWith(s, p) == Len(s) >= Len(p) /\ SubSeq(s, 1, Len(p)) = p
EndsWith(s, p) == Len(s) >= Len(p) /\ SubSeq(s, Len(s) - Len(p) + 1, Len(s)) = p

\* The /i flag: upper-case letters of the tag match too.
LowerCase(c) ==
    CASE c = "J" -> "j" [] c = "S" -> "s" [] c = "O" -> "o" [] c = "N" -> "n"
      [] OTHER -> c
StartsWithNoCase(s, p) ==
    Len(s) >= Len(p) /\ \A i \in 1..Len(p) : LowerCase(s[i]) = p[i]

\* First position at or after i (1-based) whose character \s does not match.
RECURSIVE SkipSpaces(_, _)
SkipSpaces(s, i) ==
    IF i <= Len(s) /\ s[i] \in RegexSpace THEN SkipSpaces(s, i + 1) ELSE i

\* Last position at or before i whose character \s does not match.
RECURSIVE SkipSpacesBack(_, _)
SkipSpacesBack(s, i) ==
    IF i >= 1 /\ s[i] \in RegexSpace THEN SkipSpacesBack(s, i - 1) ELSE i

Fence == <<Tick, Tick, Tick>>
JsonTag == <<"j", "s", "o", "n">>

\* s.replace(/^```json\s*/i, '').replace(/^```\s*/i, '').replace(/\s*```$/i, '')
StripFences(s) ==
    LET a == IF StartsWithNoCase(s, Fence \o JsonTag)
               THEN SubSeq(s, SkipSpaces(s, 8), Len(s)) ELSE s
        b == IF StartsWith(a, Fence) THEN SubSeq(a, SkipSpaces(a, 4), Len(a)) ELSE a
    IN  IF EndsWith(b, Fence) THEN SubSeq(b, 1, SkipSpacesBack(b, Len(b) - 3)) ELSE b

\* First position at or after i whose character is in chars, Len(s) + 1 when
\* there is none.
NextIn(s, i, chars) ==
    IF \E k \in i..Len(s) : s[k] \in chars
      THEN CHOOSE k \in i..Len(s) : s[k] \in chars /\ \A j \in i..(k - 1) : s[j] \notin chars
      ELSE Len(s) + 1

\* s.replace(/,\s*([}\]])/g, '$1') from position i on: matches are found left
\* to right and do not overlap; the text between two commas is copied.
RECURSIVE CommaScan(_, _)
CommaScan(s, i) ==
    LET c == NextIn(s, i, {","})
        j == SkipSpaces(s, c + 1)
    IN  IF c > Len(s) THEN SubSeq(s, i, Len(s))
        ELSE IF j <= Len(s) /\ s[j] \in {"}", "]"}
          THEN SubSeq(s, i, c - 1) \o <<s[j]>> \o CommaScan(s, j + 1)
          ELSE SubSeq(s, i, c) \o CommaScan(s, c + 1)

RemoveTrailingCommas(s) == CommaScan(s, 1)

\* The replacement function of s.replace(/[\x00-\x1f]/g, ...).
EscapeChar(c) ==
    CASE c = LF -> <<Backslash, "n">>
      [] c = CR -> <<Backslash, "r">>
      [] c = TAB -> <<Backslash, "t">>
      [] c \in ControlChars \ {LF, CR, TAB} -> <<>>
      [] OTHER -> <<c>>

\* s.replace(/[\x00-\x1f]/g, ...) from position i on.
RECURSIVE EscapeScan(_, _)
EscapeScan(s, i) ==
    LET c == NextIn(s, i, ControlChars)
    IN  IF c > Len(s) THEN SubSeq(s, i, Len(s))
        ELSE SubSeq(s, i, c - 1) \o EscapeChar(s[c]) \o EscapeScan(s, c + 1)

EscapeControls(s) == EscapeScan(s, 1)

\* The brace scan of the last tier from position from on, a character that
\* is no brace changing nothing: start and end (0-based, -1 when not set) when
\* the loop ends.
RECURSIVE BraceScan(_, _, _, _)
BraceScan(raw, from, depth, start) ==
    LET i == NextIn(raw, from, {"{", "}"})
    IN  IF i > Len(raw) THEN [start |-> start, end |-> 0 - 1]
        ELSE IF raw[i] = "{"
          THEN BraceScan(raw, i + 1, depth + 1, IF depth = 0 THEN i - 1 ELSE start)
        ELSE IF depth - 1 = 0
          THEN [start |-> start, end |-> i - 1]
          ELSE BraceScan(raw, i + 1, depth - 1, start)

\* ---------------------------------------------------------------- JSON.parse
\* A parsed value: a string (its characters), a number (its digits), an array
\* (its items) or an object (its members in insertion order: key, value, key,
\* value, ...).
JString(chars) == [t |-> "string", s |-> chars, m |-> <<>>]
JNumber(digits) == [t |-> "number", s |-> digits, m |-> <<>>]
JArray(items) == [t |-> "array", s |-> <<>>, m |-> items]
JObject(members) == [t |-> "object", s |-> <<>>, m |-> members]
NoValue == [t |-> "undefined", s |-> <<>>, m |-> <<>>]

\* obj[key] = val: a repeated key keeps its place and takes the last value.
Put(members, key, val) ==
    IF \E i \in 1..Len(members) : i % 2 = 1 /\ members[i] = JString(key)
      THEN [i \in 1..Len(members) |->
               IF i % 2 = 0 /\ members[i - 1] = JString(key) THEN val ELSE members[i]]
      ELSE members \o <<JString(key), val>>

\* The outcome of parsing from a position: the value and the position after
\* it, or a SyntaxError.
Parsed(val, next) == [ok |-> TRUE, val |-> val, next |-> next]
SyntaxError == [ok |-> FALSE, val |-> NoValue, next |-> 0]

RECURSIVE SkipJsonSpaces(_, _)
SkipJsonSpaces(s, i) ==
    IF i <= Len(s) /\ s[i] \in JsonSpace THEN SkipJsonSpaces(s, i + 1) ELSE i

\* The character an escape sequence stands for (\b and \uXXXX use characters
\* that no text here contains).
Escapes == {Quote, Backslash, "/", "n", "r", "t", "f"}
Unescape(c) ==
    CASE c = "n" -> LF [] c = "r" -> CR [] c = "t" -> TAB [] c = "f" -> FF
      [] OTHER -> c

\* A string literal from the character after its opening quote.
RECURSIVE ParseChars(_, _, _)
ParseChars(s, i, acc) ==
    IF i > Len(s) THEN SyntaxError
    ELSE IF s[i] = Quote THEN Parsed(JString(acc), i + 1)
    ELSE IF s[i] = Backslash
      THEN IF i + 1 <= Len(s) /\ s[i + 1] \in Escapes
             THEN ParseChars(s, i + 2, Append(acc, Unescape(s[i + 1])))
             ELSE SyntaxError
    ELSE IF s[i] \in ControlChars THEN SyntaxError
    ELSE ParseChars(s, i + 1, Append(acc, s[i]))

RECURSIVE DigitsEnd(_, _)
DigitsEnd(s, i) == IF i <= Len(s) /\ s[i] \in Digits THEN DigitsEnd(s, i + 1) ELSE i

RECURSIVE ParseValue(_, _)
RECURSIVE ParseMembers(_, _, _)
RECURSIVE ParseElements(_, _, _)

\* A value from position from, after optional whitespace.
ParseValue(s, from) ==
    LET i == SkipJsonSpaces(s, from)
        j == SkipJsonSpaces(s, i + 1)
    IN  IF i > Len(s) THEN SyntaxError
        ELSE IF s[i] = "{"
          THEN IF j <= Len(s) /\ s[j] = "}"
                 THEN Parsed(JObject(<<>>), j + 1)
                 ELSE ParseMembers(s, i + 1, <<>>)
        ELSE IF s[i] = "["
          THEN IF j <= Len(s) /\ s[j] = "]"
                 THEN Parsed(JArray(<<>>), j + 1)
                 ELSE ParseElements(s, i + 1, <<>>)
        ELSE IF s[i] = Quote THEN ParseChars(s, i + 1, <<>>)
        ELSE IF s[i] \in Digits
          THEN Parsed(JNumber(SubSeq(s, i, DigitsEnd(s, i) - 1)), DigitsEnd(s, i))
        ELSE SyntaxError

\* The members of an object from the position after its "{" or after a ",".
ParseMembers(s, from, acc) ==
    LET i == SkipJsonSpaces(s, from)
        key == ParseChars(s, i + 1, <<>>)
        colon == SkipJsonSpaces(s, key.next)
        val == ParseValue(s, colon + 1)
        after == SkipJsonSpaces(s, val.next)
        members == Put(acc, key.val.s, val.val)
    IN  IF i > Len(s) \/ s[i] # Quote THEN SyntaxError
        ELSE IF ~key.ok THEN SyntaxError
        ELSE IF colon > Len(s) \/ s[colon] # ":" THEN SyntaxError
        ELSE IF ~val.ok THEN SyntaxError
        ELSE IF after > Len(s) THEN SyntaxError
        ELSE IF s[after] = "," THEN ParseMembers(s, after + 1, members)
        ELSE IF s[after] = "}" THEN Parsed(JObject(members), after + 1)
        ELSE SyntaxError

\* The items of an array from the position after its "[" or after a ",".
ParseElements(s, from, acc) ==
    LET val == ParseValue(s, from)
        after == SkipJsonSpaces(s, val.next)
    IN  IF ~val.ok THEN SyntaxError
        ELSE IF after > Len(s) THEN SyntaxError
        ELSE IF s[after] = "," THEN ParseElements(s, after + 1, Append(acc, val.val))
        ELSE IF s[after] = "]" THEN Parsed(JArray(Append(acc, val.val)), after + 1)
        ELSE SyntaxError

\* JSON.parse(s): the whole text is one value, or a SyntaxError is thrown.
JSONparse(s) ==
    LET r == ParseValue(s, 1)
    IN  IF r.ok /\ SkipJsonSpaces(s, r.next) > Len(s) THEN r ELSE SyntaxError

\* ------------------------------------------------------------- the cleaners
\* What a cleaner (and the gateway around it) returns or throws: the parsed
\* object, or an Error whose message is `error` followed by `excerpt`; tries
\* lists the tiers whose JSON.parse was attempted, in order.
NoResult ==
    [state |-> "none", error |-> "", excerpt |-> <<>>, raw |-> <<>>,
     parsed |-> NoValue, tries |-> <<>>]
Thrown(error, excerpt, tries) ==
    [NoResult EXCEPT !.state = "threw", !.error = error, !.excerpt = excerpt,
                     !.tries = tries]
Returned(val, tries) ==
    [NoResult EXCEPT !.state = "returned", !.parsed = val, !.tries = tries]

\* s.slice(0, 300) of the final Error of cleanJSON, s.slice(0, 200) of the MVP.
ExcerptLen == 300
MvpExcerptLen == 200

\* The text between the first "{" and the last "}" of the fence-stripped text.
Sliced(raw) ==
    LET s == StripFences(raw)
    IN  slice(s, indexOf(s, "{"), lastIndexOf(s, "}") + 1)

\* The span the brace scan of raw found, or no text when it found none.
BalancedSpan(raw) ==
    LET scan == BraceScan(raw, 1, 0, 0 - 1)
    IN  [found |-> scan.start >= 0 /\ scan.end > scan.start,
         text |-> IF scan.start >= 0 /\ scan.end > scan.start
                    THEN slice(raw, scan.start, scan.end + 1) ELSE <<>>]

\* Mutant of cleanJSON: trailing commas are removed before the first parse.
cleanJSON_CommasFirst(raw) ==
    LET s == StripFences(raw)
        fix == RemoveTrailingCommas(Sliced(raw))
    IN  IF indexOf(s, "{") < 0 \/ lastIndexOf(s, "}") < 0
          THEN Thrown("No JSON object found in response", <<>>, <<>>)
        ELSE IF JSONparse(fix).ok THEN Returned(JSONparse(fix).val, <<1>>)
        ELSE Thrown("JSON parse failed. First 300: ", slice(Sliced(raw), 0, ExcerptLen),
                    <<1, 2, 3>>)

\* Mutant of cleanJSON: without braces the text is parsed all the same.
cleanJSON_NoBraceCheck(raw) ==
    IF JSONparse(StripFences(raw)).ok
      THEN Returned(JSONparse(StripFences(raw)).val, <<1>>)
      ELSE Thrown("JSON parse failed. First 300: ", slice(StripFences(raw), 0, ExcerptLen),
                  <<1>>)

\* cleanJSON of server.js v1.0.1.
cleanJSON(raw) ==
    LET s0 == StripFences(raw)
        f == indexOf(s0, "{")
        l == lastIndexOf(s0, "}")
        s == slice(s0, f, l + 1)
        fix2 == RemoveTrailingCommas(s)
        fix3 == EscapeControls(fix2)
        span == BalancedSpan(raw)
        ex == EscapeControls(RemoveTrailingCommas(span.text))
        failed == "JSON parse failed. First 300: "
    IN  IF f < 0 \/ l < 0 THEN Thrown("No JSON object found in response", <<>>, <<>>)
        ELSE IF JSONparse(s).ok THEN Returned(JSONparse(s).val, <<1>>)
        ELSE IF JSONparse(fix2).ok THEN Returned(JSONparse(fix2).val, <<1, 2>>)
        ELSE IF JSONparse(fix3).ok THEN Returned(JSONparse(fix3).val, <<1, 2, 3>>)
        ELSE IF ~span.found THEN Thrown(failed, slice(s, 0, ExcerptLen), <<1, 2, 3>>)
        ELSE IF JSONparse(ex).ok THEN Returned(JSONparse(ex).val, <<1, 2, 3, 4>>)
        ELSE Thrown(failed, slice(s, 0, ExcerptLen), <<1, 2, 3, 4>>)

\* The lookbehind (?<=":[ ]*"[^"]*) at position i: the nearest quote on the
\* left opens a string that follows a key's closing quote and colon.
RECURSIVE QuoteBefore(_, _)
QuoteBefore(s, i) == IF i >= 1 /\ s[i] # Quote THEN QuoteBefore(s, i - 1) ELSE i

RECURSIVE BlanksBefore(_, _)
BlanksBefore(s, i) == IF i >= 1 /\ s[i] = " " THEN BlanksBefore(s, i - 1) ELSE i

InStringValue(s, i) ==
    LET q == QuoteBefore(s, i - 1)
        c == BlanksBefore(s, q - 1)
    IN  q >= 1 /\ c >= 2 /\ s[c] = ":" /\ s[c - 1] = Quote

\* fix.replace(/(?<=":[ ]*"[^"]*)\n/g, '\\n')
RECURSIVE NewlineScan(_, _)
NewlineScan(s, i) ==
    LET c == NextIn(s, i, {LF})
    IN  IF c > Len(s) THEN SubSeq(s, i, Len(s))
        ELSE SubSeq(s, i, c - 1)
             \o (IF InStringValue(s, c) THEN <<Backslash, "n">> ELSE <<LF>>)
             \o NewlineScan(s, c + 1)

EscapeNewlines(s) == NewlineScan(s, 1)

\* cleanJSON of server.js v1.0.0.
cleanJSON_v100(raw) ==
    LET s0 == StripFences(raw)
        f == indexOf(s0, "{")
        l == lastIndexOf(s0, "}")
        s == slice(s0, f, l + 1)
        fix2 == RemoveTrailingCommas(s)
        fix3 == EscapeNewlines(fix2)
    IN  IF f < 0 \/ l < 0 THEN Thrown("No JSON in response", <<>>, <<>>)
        ELSE IF JSONparse(s).ok THEN Returned(JSONparse(s).val, <<1>>)
        ELSE IF JSONparse(fix2).ok THEN Returned(JSONparse(fix2).val, <<1, 2>>)
        ELSE IF JSONparse(fix3).ok THEN Returned(JSONparse(fix3).val, <<1, 2, 3>>)
        ELSE Thrown("JSON parse failed", <<>>, <<1, 2, 3>>)

\* cleanAndParseJSON of the MVP.  Its fourth tier rewrites "..." spans whose
\* inside holds no quote, which leaves the text as it is; its last tier scans
\* the sliced text and removes trailing commas only.
cleanAndParseJSON(raw) ==
    LET s0 == StripFences(raw)
        f == indexOf(s0, "{")
        l == lastIndexOf(s0, "}")
        s == slice(s0, f, l + 1)
        fix2 == RemoveTrailingCommas(s)
        fix3 == EscapeNewlines(fix2)
        span == BalancedSpan(s)
        extracted == RemoveTrailingCommas(span.text)
        failed == "Could not parse JSON from LLM response. First 200 chars: "
        dots == <<".", ".", ".">>
    IN  IF f < 0 \/ l < 0 THEN Thrown("No JSON object found in response", <<>>, <<>>)
        ELSE IF JSONparse(s).ok THEN Returned(JSONparse(s).val, <<1>>)
        ELSE IF JSONparse(fix2).ok THEN Returned(JSONparse(fix2).val, <<1, 2>>)
        ELSE IF JSONparse(fix3).ok THEN Returned(JSONparse(fix3).val, <<1, 2, 3>>)
        ELSE IF ~span.found
          THEN Thrown(failed, slice(s, 0, MvpExcerptLen) \o dots, <<1, 2, 3, 4>>)
        ELSE IF JSONparse(extracted).ok
          THEN Returned(JSONparse(extracted).val, <<1, 2, 3, 4, 5>>)
        ELSE Thrown(failed, slice(s, 0, MvpExcerptLen) \o dots, <<1, 2, 3, 4, 5>>)

Cleaners == {"v1.0.1", "v1.0.0", "mvp"}

Clean(which, raw) ==
    CASE which = "v1.0.1" -> cleanJSON(raw)
      [] which = "v1.0.0" -> cleanJSON_v100(raw)
      [] which = "mvp" -> cleanAndParseJSON(raw)

\* The answer of the chat-completion endpoint: response.ok and the content of
\* the first choice ("" when there is none); here, a non-success status.
NoCompletion == [ok |-> FALSE, content |-> <<>>, errText |-> <<>>]

\* ------------------------------------------------------------ the gateway
\* What the chat-completion endpoint does with one call: the transport fails,
\* it answers a non-success status, a completion with empty content, content
\* cleanJSON cannot recover, or content cleanJSON recovers to an object.
Replies(objects) ==
    {[kind |-> k, obj |-> EmptyObj] : k \in {"neterr", "status", "empty", "garbage"}}
    \cup {[kind |-> "json", obj |-> o] : o \in objects}

Throw(msg) == [state |-> "threw", message |-> msg, parsed |-> EmptyObj]
Return(obj) == [state |-> "returned", message |-> "", parsed |-> obj]

\* Mutant of callLLM: the empty-completion error carries no message.
callLLM_EmptyMessage(reply) ==
    IF reply.kind = "neterr" THEN Throw("fetch failed")
    ELSE IF reply.kind = "status" THEN Throw("OpenRouter 500: upstream error")
    ELSE IF reply.kind = "empty" THEN Throw("")
    ELSE IF reply.kind = "garbage" THEN Throw("JSON parse failed. First 300: ...")
    ELSE Return(reply.obj)

\* callLLM, given the endpoint's reply: {raw, parsed} or a thrown Error.
callLLM(reply) ==
    IF reply.kind = "neterr" THEN Throw("fetch failed")
    ELSE IF reply.kind = "status" THEN Throw("OpenRouter 500: upstream error")
    ELSE IF reply.kind = "empty" THEN Throw("Empty response from model")
    ELSE IF reply.kind = "garbage" THEN Throw("JSON parse failed. First 300: ...")
    ELSE Return(reply.obj)

\* The names MODELS, an object literal, inherits from Object.prototype; the
\* value under each is a function (an object under __proto__), not a string.
InheritedKeys == {"constructor", "toString", "valueOf", "hasOwnProperty", "__proto__"}
Inherited == "[inherited member]"

\* MODELS[key]: the table's own entries, then what the prototype chain holds.
MODELS(key) ==
    CASE key = "haiku" -> "anthropic/claude-3.5-haiku"
      [] key = "sonnet" -> "anthropic/claude-sonnet-4"
      [] key = "flash-lite" -> "google/gemini-2.5-flash-lite"
      [] key = "flash" -> "google/gemini-2.5-flash"
      [] key = "pro" -> "google/gemini-2.5-pro"
      [] key \in InheritedKeys -> Inherited
      [] OTHER -> "undefined"

\* MODELS[model] || MODELS['sonnet']
analysisModel(key) == IF MODELS(key) # "undefined" THEN MODELS(key) ELSE MODELS("sonnet")
preprocessModel == MODELS("flash-lite")

\* ------------------------------------------------------------- the request
\* req.body.text: missing (or another falsy value), a string (a sequence of
\* characters), or a truthy value that is no string (a number, an object).
NoText == [type |-> "undefined", chars |-> <<>>]
Text(s) == [type |-> "string", chars |-> s]
NonStringText == [type |-> "number", chars |-> <<>>]
Whitespace == {" ", "\t", "\n"}

RECURSIVE TrimLeft(_)
TrimLeft(s) == IF s # <<>> /\ Head(s) \in Whitespace THEN TrimLeft(Tail(s)) ELSE s

RECURSIVE TrimRight(_)
TrimRight(s) ==
    IF s # <<>> /\ s[Len(s)] \in Whitespace THEN TrimRight(SubSeq(s, 1, Len(s) - 1)) ELSE s

\* text.trim()
Trim(s) == TrimRight(TrimLeft(s))

\* !text
Falsy(t) == t.type = "undefined" \/ (t.type = "string" /\ t.chars = <<>>)

Texts == {NoText, NonStringText, Text(<<>>), Text(<<" ">>), Text(<<"\t", "\n">>),
          Text(<<"H", "i">>), Text(<<" ", "R", "e", " ">>)}
ModelKeys == {"undefined", "haiku", "gpt", "constructor"}

\* ------------------------------------------------------------ the response
NoMemory == [present |-> FALSE, stored |-> FALSE, similar |-> "undefined"]

\* The fields of the health body, absent from every other body.
NoHealth ==
    [status |-> "undefined", hasOpenRouterKey |-> FALSE, hasPineconeKey |-> FALSE,
     pinecone |-> "undefined"]

\* No response sent yet (status 0).
NoResp ==
    [status |-> 0, error |-> "", origin |-> "", pipeline |-> "undefined",
     model |-> "", result |-> EmptyObj, email_count |-> Undefined,
     analysis_count |-> Undefined, complete |-> FALSE, memory |-> NoMemory,
     health |-> NoHealth]

\* res.status(code).json({ error: msg }); origin records which step raised it.
ErrorResp(code, msg, origin) ==
    [NoResp EXCEPT !.status = code, !.error = msg, !.origin = origin]

\* An outbound call, as logged when it is issued.
Call(svc, op) == [svc |-> svc, op |-> op]

\* A callLLM promise: not started, in flight, or settled (see callLLM).
NotCalled == [state |-> "none", message |-> "", parsed |-> EmptyObj]
InFlight == [state |-> "pending", message |-> "", parsed |-> EmptyObj]

\* var threadId = 'thread_' + Date.now(): the id storeDeal upserts under.
ThreadId == "thread_now"
\* The deals stored by earlier requests.
PastDeals == {"thread_past"}

\* The two requests a process serves at once.
Requests == {1, 2}

\* The locals of one invocation of the /api/analyze handler, with the client
\* getPinecone() returned to its storeDeal and to its findSimilarDeals (0: none).
NoLocals ==
    [phase |-> "idle", model |-> "undefined",
     stage1 |-> NotCalled, stage2 |-> NotCalled, fallback |-> NotCalled,
     body |-> NoResp, storeSt |-> "idle", findSt |-> "idle",
     storeClient |-> 0, findClient |-> 0, storeOk |-> FALSE, findOk |-> FALSE,
     visible |-> {}, matches |-> {}, threadId |-> ""]

\* The process before any request: `let pc = null` (0), no client constructed,
\* and the deals index as earlier processes left it.
NoConc ==
    [pc |-> 0, built |-> 0,
     index |-> {[id |-> d, text |-> [text |-> "dealSummary", of |-> EmptyObj]] : d \in PastDeals},
     reqs |-> [r \in Requests |-> NoLocals]]

\* The process before server.js is loaded, and the vector-store service's
\* indexes as it finds them: initIndexes not called, nothing listed, no
\* createIndex call made, the port not bound.
NoBoot ==
    [phase |-> "load", existing |-> {}, listed |-> {}, at |-> 0, creates |-> <<>>,
     runs |-> 0, ready |-> 0, made |-> {}, listening |-> FALSE]

\* findSimilarDeals' result before any query, and the one of its catch:
\* { success: false, error, won: [], lost: [], other: [], all: [] }.
NoFound ==
    [queried |-> FALSE, success |-> FALSE, total_matches |-> Undefined,
     won_matches |-> Undefined, lost_matches |-> Undefined,
     won |-> <<>>, lost |-> <<>>, other |-> <<>>, all |-> <<>>]

\* An empty deals index, not queried yet.
NoMem == [index |-> {}, found |-> NoFound]

VARIABLES
    version,      \* which server.js of the repository is deployed
    env,          \* process.env: which credentials are set (read-only)
    pc,           \* pinecone.js `let pc`: the lazily created client, or "null"
    req,          \* the request being served
    phase,        \* where the handler is suspended
    calls,        \* outbound calls issued so far, in order
    stage1,       \* the Stage-1 callLLM promise
    stage2,       \* the Stage-2 callLLM promise
    fallback,     \* the Fallback callLLM promise
    pending,      \* the 200 response being assembled while memory runs
    storeSt,      \* storeDeal: idle / embed / upsert / done
    findSt,       \* findSimilarDeals: idle / embed / query / done
    storeRes,     \* storeDeal's result.success
    similarRes,   \* findSimilarDeals' result.success
    resp,         \* the response sent, NoResp before
    deals,        \* the ids stored in the clearsignals-deals index
    matches,      \* findSimilarDeals' result.all: the ids index.query returned
    sent,         \* the arguments of each callLLM call made, in order
    cleaner,      \* which JSON cleaner of the repository runs
    completion,   \* the chat-completion endpoint's answer to the gateway's call
    gwPhase,      \* where callLLM is: idle / fetch / done
    gwCalls,      \* chat-completion calls callLLM has made
    gwResult,     \* what callLLM returned or threw, with the tiers cleanJSON tried
    conc,         \* one process serving two /api/analyze requests at once
    boot,         \* the process's startup: initIndexes and app.listen
    mem           \* the deals index as storeDeal writes it, and what a query found

\* The variables of the request handlers, and those of the gateway on its own.
appVars == <<version, env, pc, req, phase, calls, stage1, stage2, fallback, pending,
             storeSt, findSt, storeRes, similarRes, resp, deals, matches, sent>>
jsonVars == <<cleaner, completion, gwPhase, gwCalls, gwResult>>
vars == <<appVars, jsonVars, conc, boot, mem>>

memVars == <<pc, storeSt, findSt, storeRes, similarRes, deals, matches>>

NoReq == [endpoint |-> "none", text |-> NoText, model |-> "undefined"]

Versions == {"v1.0.0", "v1.0.1"}

Init ==
    /\ version \in Versions
    /\ env \in [OPENROUTER_API_KEY : BOOLEAN, PINECONE_API_KEY : BOOLEAN]
    \* v1.0.1 startup: initIndexes() has called getPinecone() when the key is
    \* set; the client exists unless its construction threw.
    /\ pc \in IF version = "v1.0.1" /\ env.PINECONE_API_KEY THEN {"client", "null"} ELSE {"null"}
    /\ req = NoReq
    /\ phase = "idle"
    /\ calls = <<>>
    /\ stage1 = NotCalled
    /\ stage2 = NotCalled
    /\ fallback = NotCalled
    /\ pending = NoResp
    /\ storeSt = "idle"
    /\ findSt = "idle"
    /\ storeRes = FALSE
    /\ similarRes = FALSE
    /\ resp = NoResp
    /\ deals = PastDeals
    /\ matches = {}
    /\ sent = <<>>
    /\ cleaner = "v1.0.1"
    /\ completion = NoCompletion
    /\ gwPhase = "off"
    /\ gwCalls = 0
    /\ gwResult = NoResult
    /\ conc = NoConc
    /\ boot = NoBoot
    /\ mem = NoMem

\* res.status(...).json(...) / res.json(...): the handler is over.
Respond(r) == resp' = r /\ phase' = "done"

\* A throw outside the handler's try block rejects the async handler's promise.
\* Express 4 drops the rejection: nothing is ever sent.  Express 5 hands it to
\* its error handler, which answers 500 with a page of its own (no error
\* field).  The repository does not say which Express it runs on.
Rejected(handled) ==
    IF handled THEN Respond(ErrorResp(500, "", "framework"))
               ELSE phase' = "rejected" /\ resp' = resp

\* The user message of a call that passes the pasted text on (Stage-1: the
\* text itself; Fallback: 'Analyze this pasted email thread:\n\n' + text): no
\* stated count, no clean thread.
RawThread(text) == [text |-> text, count |-> Undefined, thread |-> <<>>]

\* callLLM(modelId, systemPrompt, userMessage, maxTokens) is called: the fetch
\* is issued, and the call's model identifier and user message are noted.
Chat(op, modelId, userMessage) ==
    /\ calls' = Append(calls, Call("chat", op))
    /\ sent' = Append(sent, [op |-> op, model |-> modelId, message |-> userMessage])

\* ---------------------------------------------------- pinecone.js (memory)
\* getPinecone() when the key is set: the existing client, or a new one unless
\* the constructor throws (created = FALSE).
getPinecone(client, created) == IF client = "client" \/ created THEN "client" ELSE "null"

\* Mutant of MemoryBegin: findSimilarDeals is awaited after storeDeal, so it
\* is not started with it.
MemoryBegin_Sequential(created1, created2) ==
    LET pc1 == getPinecone(pc, created1)
    IN  [pc |-> pc1,
         storeSt |-> IF pc1 = "client" THEN "embed" ELSE "done",
         findSt |-> "idle",
         issued |-> IF pc1 = "client" THEN <<Call("embed", "storeDeal")>> ELSE <<>>]

\* Promise.all([storeDeal(...), findSimilarDeals(...)]): both functions are
\* called, storeDeal first, and each runs to its first await: getPinecone(),
\* then embedText() issues the embedding call.  A throw is caught inside the
\* function, which then resolves at once with success: false.
MemoryBegin(created1, created2) ==
    LET pc1 == getPinecone(pc, created1)
        pc2 == getPinecone(pc1, created2)
    IN  [pc |-> pc2,
         storeSt |-> IF pc1 = "client" THEN "embed" ELSE "done",
         findSt |-> IF pc2 = "client" THEN "embed" ELSE "done",
         issued |-> (IF pc1 = "client" THEN <<Call("embed", "storeDeal")>> ELSE <<>>)
                    \o (IF pc2 = "client" THEN <<Call("embed", "findSimilarDeals")>> ELSE <<>>)]

\* storeDeal: embedText settles; on success index.upsert is issued.
StoreEmbedSettled(ok) ==
    /\ storeSt = "embed"
    /\ IF ok
         THEN /\ storeSt' = "upsert"
              /\ calls' = Append(calls, Call("pinecone", "upsert"))
         ELSE /\ storeSt' = "done"
              /\ calls' = calls
    /\ storeRes' = FALSE
    /\ UNCHANGED <<jsonVars, conc, boot, mem, sent, version, env, pc, req, phase, stage1, stage2, fallback, pending,
                   findSt, similarRes, resp, deals, matches>>

\* Mutant of StoreUpsertSettled: storeDeal cuts the analysis down to what it
\* stored (the per-email analyses are not part of the metadata).
StoreUpsertSettled_CutsResult(ok) ==
    /\ storeSt = "upsert"
    /\ storeSt' = "done"
    /\ storeRes' = ok
    /\ deals' = IF ok /\ req.endpoint = "analyze" THEN deals \cup {ThreadId} ELSE deals
    /\ pending' = [pending EXCEPT !.result.per_email = Arr(<<>>)]
    /\ UNCHANGED <<jsonVars, conc, boot, mem, sent, version, env, pc, req, phase, calls, stage1, stage2, fallback,
                   findSt, similarRes, resp, matches>>

\* storeDeal: index.upsert settles; {success: true} or the catch's {success: false}.
\* A successful upsert has put the request's thread id in the deals index
\* (storeCPP, which shares these steps, writes to the cpp index instead).
StoreUpsertSettled(ok) ==
    /\ storeSt = "upsert"
    /\ storeSt' = "done"
    /\ storeRes' = ok
    /\ deals' = IF ok /\ req.endpoint = "analyze" THEN deals \cup {ThreadId} ELSE deals
    /\ UNCHANGED <<jsonVars, conc, boot, mem, sent, version, env, pc, req, phase, calls, stage1, stage2, fallback, pending,
                   findSt, similarRes, resp, matches>>

\* findSimilarDeals: embedText settles; on success index.query is issued.
FindEmbedSettled(ok) ==
    /\ findSt = "embed"
    /\ IF ok
         THEN /\ findSt' = "query"
              /\ calls' = Append(calls, Call("pinecone", "query"))
         ELSE /\ findSt' = "done"
              /\ calls' = calls
    /\ similarRes' = FALSE
    /\ UNCHANGED <<jsonVars, conc, boot, mem, sent, version, env, pc, req, phase, stage1, stage2, fallback, pending,
                   storeSt, storeRes, resp, deals, matches>>

\* findSimilarDeals: index.query settles with the deals the index holds at
\* that moment (all of them: fewer than topK are stored here).
FindQuerySettled(ok) ==
    /\ findSt = "query"
    /\ findSt' = "done"
    /\ similarRes' = ok
    /\ matches' = IF ok THEN deals ELSE {}
    /\ UNCHANGED <<jsonVars, conc, boot, mem, sent, version, env, pc, req, phase, calls, stage1, stage2, fallback, pending,
                   storeSt, storeRes, resp, deals>>

\* ------------------------------------------- server.js v1.0.1: /api/analyze
\* The cleanThread map throws a TypeError when emails has a length but no
\* .map (a string), or an entry is null (em.index).
CleanThreadThrows(emails) ==
    \/ emails.kind # "array"
    \/ \E i \in 1..Len(emails.items) : emails.items[i].kind = "null"

\* Mutant of cleanThread: the last message is left out of the thread.
cleanThread_DropsLast(emails, emailCount) ==
    [i \in 1..(Len(emails.items) - 1) |-> [entry |-> emails.items[i], of |-> emailCount]]

\* (s1.emails || []).map(em => 'EMAIL ' + em.index + ' of ' + emailCount + ...):
\* one block per entry, in the order of the entries.
cleanThread(emails, emailCount) ==
    [i \in 1..Len(emails.items) |-> [entry |-> emails.items[i], of |-> emailCount]]

\* 'Analyze this ' + emailCount + '-email thread. Return exactly ' + emailCount
\* + ' per_email entries:\n\n' + cleanThread; the pasted text is not in it.
Stage2Message(emails, emailCount) ==
    [text |-> NoText, count |-> emailCount, thread |-> cleanThread(emails, emailCount)]

\* The parsed_emails map throws when an entry's body is a truthy non-string:
\* (em.body || '').substring is not a function.
MergeThrows(emails) ==
    \E i \in 1..Len(emails.items) : emails.items[i].kind = "badbody"

\* (s1.emails || []).map(em => {index, from, date, snippet, direction})
ParsedEmails(emails) ==
    Arr([i \in 1..Len(emails.items) |-> [kind |-> "summary", index |-> emails.items[i].index]])

\* s2.final || {}
FinalOrEmpty(f) == IF f = "absent" THEN "nostage" ELSE f

\* Mutant of MergeResult: per_email is cut to the number of parsed emails.
MergeResult_Truncates(s1, s2) ==
    LET n == Len(OrEmpty(s1.emails).items)
        per == OrEmpty(s2.per_email).items
    IN  [emails |-> Absent,
         parsed_emails |-> ParsedEmails(OrEmpty(s1.emails)),
         per_email |-> Arr(IF Len(per) > n THEN SubSeq(per, 1, n) ELSE per),
         final |-> FinalOrEmpty(s2.final)]

\* The merged two-stage result.
MergeResult(s1, s2) ==
    [emails |-> Absent,
     parsed_emails |-> ParsedEmails(OrEmpty(s1.emails)),
     per_email |-> OrEmpty(s2.per_email),
     final |-> FinalOrEmpty(s2.final)]

\* Mutant of MemoryGate: the deal stage is not looked at.
MemoryGate_AnyResult(result) == env.PINECONE_API_KEY

\* process.env.PINECONE_API_KEY && result.final && result.final.deal_stage
MemoryGate(result) == env.PINECONE_API_KEY /\ result.final = "staged"

\* memoryResult before the memory side effect: { stored: false, similar: null }
DefaultMemory == [present |-> TRUE, stored |-> FALSE, similar |-> "null"]

\* Mutant of TwoStageResp: complete is reported whenever no analysis is missing.
TwoStageResp_AtLeast(result, emailCount, perCount) ==
    [NoResp EXCEPT !.status = 200, !.pipeline = "two-stage",
                   !.model = analysisModel(req.model), !.result = result,
                   !.email_count = emailCount, !.analysis_count = perCount,
                   !.complete = (emailCount <= perCount), !.memory = DefaultMemory]

\* The 200 body of the two-stage path.
TwoStageResp(result, emailCount, perCount) ==
    [NoResp EXCEPT !.status = 200, !.pipeline = "two-stage",
                   !.model = analysisModel(req.model), !.result = result,
                   !.email_count = emailCount, !.analysis_count = perCount,
                   !.complete = (emailCount = perCount), !.memory = DefaultMemory]

\* The 200 body of the fallback path.
FallbackResp(fb, fbEmailCount, fbPerCount) ==
    [NoResp EXCEPT !.status = 200, !.pipeline = "fallback-single",
                   !.model = analysisModel(req.model), !.result = fb,
                   !.email_count = fbEmailCount, !.analysis_count = fbPerCount,
                   !.complete = (fbEmailCount = fbPerCount), !.memory = DefaultMemory]

\* Mutant of AnalyzeStart: the text check is `!text` alone, without trim().
AnalyzeStart_NoTrim(text, model) ==
    /\ version = "v1.0.1"
    /\ phase = "idle"
    /\ req' = [endpoint |-> "analyze", text |-> text, model |-> model]
    /\ IF ~env.OPENROUTER_API_KEY
         THEN /\ Respond(ErrorResp(500, "Server missing OPENROUTER_API_KEY", "config"))
              /\ UNCHANGED <<calls, sent, stage1>>
         ELSE IF Falsy(text)
         THEN /\ Respond(ErrorResp(400, "No email text provided", "validation"))
              /\ UNCHANGED <<calls, sent, stage1>>
         ELSE /\ Chat("stage1", preprocessModel, RawThread(text))
              /\ stage1' = InFlight
              /\ phase' = "stage1"
              /\ resp' = resp
    /\ UNCHANGED <<jsonVars, conc, boot, mem, version, env, stage2, fallback, pending, memVars>>

\* The handler up to its first await: credential check, text check, then the
\* Stage-1 callLLM is issued.  text.trim() of a truthy non-string throws
\* outside the try block: the handler's promise rejects and nothing is sent.
AnalyzeStart(text, model) ==
    /\ version = "v1.0.1"
    /\ phase = "idle"
    /\ req' = [endpoint |-> "analyze", text |-> text, model |-> model]
    /\ IF ~env.OPENROUTER_API_KEY
         THEN /\ Respond(ErrorResp(500, "Server missing OPENROUTER_API_KEY", "config"))
              /\ UNCHANGED <<calls, sent, stage1>>
         ELSE IF Falsy(text)
         THEN /\ Respond(ErrorResp(400, "No email text provided", "validation"))
              /\ UNCHANGED <<calls, sent, stage1>>
         ELSE IF text.type # "string"
         THEN /\ \E handled \in BOOLEAN : Rejected(handled)
              /\ UNCHANGED <<calls, sent, stage1>>
         ELSE IF Trim(text.chars) = <<>>
         THEN /\ Respond(ErrorResp(400, "No email text provided", "validation"))
              /\ UNCHANGED <<calls, sent, stage1>>
         ELSE /\ Chat("stage1", preprocessModel, RawThread(text))
              /\ stage1' = InFlight
              /\ phase' = "stage1"
              /\ resp' = resp
    /\ UNCHANGED <<jsonVars, conc, boot, mem, version, env, stage2, fallback, pending, memVars>>

\* Mutant of AnalyzeStage1Settled: when Stage-1 returned an object without
\* messages, the Fallback is given what Stage-1 made of the text.
AnalyzeStage1Settled_FallbackFromStage1(reply) ==
    /\ version = "v1.0.1"
    /\ phase = "stage1"
    /\ LET out == callLLM(reply)
           s1 == out.parsed
           emailCount == IF out.state = "returned"
                           THEN JsLength(OrEmpty(s1.emails)) ELSE Undefined
       IN  /\ stage1' = out
           /\ IF out.state = "returned" /\ emailCount > 0
                THEN IF CleanThreadThrows(OrEmpty(s1.emails))
                       THEN /\ Respond(ErrorResp(500, "TypeError", "cleanThread"))
                            /\ UNCHANGED <<calls, sent, stage2, fallback>>
                       ELSE /\ Chat("stage2", analysisModel(req.model),
                                 Stage2Message(OrEmpty(s1.emails), emailCount))
                            /\ stage2' = InFlight
                            /\ phase' = "stage2"
                            /\ UNCHANGED <<resp, fallback>>
                ELSE /\ Chat("fallback", analysisModel(req.model),
                          IF out.state = "returned"
                            THEN Stage2Message(OrEmpty(s1.emails), 0)
                            ELSE RawThread(req.text))
                     /\ fallback' = InFlight
                     /\ phase' = "fallback"
                     /\ UNCHANGED <<resp, stage2>>
    /\ UNCHANGED <<jsonVars, conc, boot, mem, version, env, req, pending, memVars>>

\* The Stage-1 call settles.  A throw is caught (s1 = null); with s1 set and
\* emailCount > 0 the clean thread is built and Stage-2 is issued, otherwise
\* the Fallback call is issued.  A TypeError while building the clean thread
\* goes to the outer catch.
AnalyzeStage1Settled(reply) ==
    /\ version = "v1.0.1"
    /\ phase = "stage1"
    /\ LET out == callLLM(reply)
           s1 == out.parsed
           emailCount == IF out.state = "returned"
                           THEN JsLength(OrEmpty(s1.emails)) ELSE Undefined
       IN  /\ stage1' = out
           /\ IF out.state = "returned" /\ emailCount > 0
                THEN IF CleanThreadThrows(OrEmpty(s1.emails))
                       THEN /\ Respond(ErrorResp(500, "TypeError", "cleanThread"))
                            /\ UNCHANGED <<calls, sent, stage2, fallback>>
                       ELSE /\ Chat("stage2", analysisModel(req.model),
                                 Stage2Message(OrEmpty(s1.emails), emailCount))
                            /\ stage2' = InFlight
                            /\ phase' = "stage2"
                            /\ UNCHANGED <<resp, fallback>>
                ELSE /\ Chat("fallback", analysisModel(req.model), RawThread(req.text))
                     /\ fallback' = InFlight
                     /\ phase' = "fallback"
                     /\ UNCHANGED <<resp, stage2>>
    /\ UNCHANGED <<jsonVars, conc, boot, mem, version, env, req, pending, memVars>>

\* After the result is assembled: the memory side effect starts when the gate
\* is open, otherwise the response is sent with the default memory field.
FinishOrMemory(body, created1, created2) ==
    IF MemoryGate(body.result)
      THEN LET m == MemoryBegin(created1, created2)
           IN  /\ pc' = m.pc
               /\ storeSt' = m.storeSt
               /\ findSt' = m.findSt
               /\ calls' = calls \o m.issued
               /\ pending' = body
               /\ phase' = "memory"
               /\ UNCHANGED <<resp, storeRes, similarRes, deals, matches>>
      ELSE /\ Respond(body)
           /\ UNCHANGED <<calls, pending, memVars>>

\* Mutant of AnalyzeStage2Settled: a failed Stage-2 call falls back to the
\* single call, as a failed Stage-1 call does.
AnalyzeStage2Settled_FallsBack(reply, created1, created2) ==
    /\ version = "v1.0.1"
    /\ phase = "stage2"
    /\ LET out == callLLM(reply)
           s1 == stage1.parsed
           s2 == out.parsed
           emailCount == JsLength(OrEmpty(s1.emails))
           perCount == JsLength(OrEmpty(s2.per_email))
       IN  /\ stage2' = out
           /\ IF out.state = "threw"
                THEN /\ Chat("fallback", analysisModel(req.model), RawThread(req.text))
                     /\ fallback' = InFlight
                     /\ phase' = "fallback"
                     /\ UNCHANGED <<resp, pending, memVars>>
                ELSE IF MergeThrows(OrEmpty(s1.emails))
                THEN /\ Respond(ErrorResp(500, "TypeError", "merge"))
                     /\ UNCHANGED <<calls, sent, pending, memVars, fallback>>
                ELSE /\ FinishOrMemory(TwoStageResp(MergeResult(s1, s2), emailCount, perCount),
                                       created1, created2)
                     /\ UNCHANGED <<fallback, sent>>
    /\ UNCHANGED <<jsonVars, conc, boot, mem, version, env, req, stage1>>

\* The Stage-2 call settles: a throw goes to the outer catch (500); otherwise
\* the result is merged, and the memory side effect or the response follows.
AnalyzeStage2Settled(reply, created1, created2) ==
    /\ version = "v1.0.1"
    /\ phase = "stage2"
    /\ LET out == callLLM(reply)
           s1 == stage1.parsed
           s2 == out.parsed
           emailCount == JsLength(OrEmpty(s1.emails))
           perCount == JsLength(OrEmpty(s2.per_email))
       IN  /\ stage2' = out
           /\ IF out.state = "threw"
                THEN /\ Respond(ErrorResp(500, out.message, "stage2"))
                     /\ UNCHANGED <<calls, pending, memVars>>
                ELSE IF MergeThrows(OrEmpty(s1.emails))
                THEN /\ Respond(ErrorResp(500, "TypeError", "merge"))
                     /\ UNCHANGED <<calls, pending, memVars>>
                ELSE FinishOrMemory(TwoStageResp(MergeResult(s1, s2), emailCount, perCount),
                                    created1, created2)
    /\ UNCHANGED <<jsonVars, conc, boot, mem, sent, version, env, req, stage1, fallback>>

\* Mutant of AnalyzeFallbackSettled: a failed Fallback call is retried once.
AnalyzeFallbackSettled_Retries(reply, created1, created2) ==
    /\ version = "v1.0.1"
    /\ phase = "fallback"
    /\ LET out == callLLM(reply)
           fb == out.parsed
           fbEmailCount == JsLength(OrEmpty(fb.parsed_emails))
           fbPerCount == JsLength(OrEmpty(fb.per_email))
       IN  IF out.state = "threw" /\ Len(calls) < 3
             THEN /\ Chat("fallback", analysisModel(req.model), RawThread(req.text))
                  /\ UNCHANGED <<fallback, phase, resp, pending, memVars>>
             ELSE /\ fallback' = out
                  /\ sent' = sent
                  /\ IF out.state = "threw"
                       THEN /\ Respond(ErrorResp(500, out.message, "fallback"))
                            /\ UNCHANGED <<calls, pending, memVars>>
                       ELSE FinishOrMemory(FallbackResp(fb, fbEmailCount, fbPerCount),
                                           created1, created2)
    /\ UNCHANGED <<jsonVars, conc, boot, mem, version, env, req, stage1, stage2>>

\* The Fallback call settles: a throw goes to the outer catch (500); otherwise
\* the recovered object is the result.
AnalyzeFallbackSettled(reply, created1, created2) ==
    /\ version = "v1.0.1"
    /\ phase = "fallback"
    /\ LET out == callLLM(reply)
           fb == out.parsed
           fbEmailCount == JsLength(OrEmpty(fb.parsed_emails))
           fbPerCount == JsLength(OrEmpty(fb.per_email))
       IN  /\ fallback' = out
           /\ IF out.state = "threw"
                THEN /\ Respond(ErrorResp(500, out.message, "fallback"))
                     /\ UNCHANGED <<calls, pending, memVars>>
                ELSE FinishOrMemory(FallbackResp(fb, fbEmailCount, fbPerCount),
                                    created1, created2)
    /\ UNCHANGED <<jsonVars, conc, boot, mem, sent, version, env, req, stage1, stage2>>

\* memoryResult = { stored: storeRes.success, thread_id, similar: similarRes }
MemoryResult(stored, similarOk) ==
    [present |-> TRUE, stored |-> stored,
     similar |-> IF similarOk THEN "matches" ELSE "failed"]

\* Mutant of AnalyzeMemoryJoined: a failed storeDeal fails the request.
AnalyzeMemoryJoined_FailsOnStoreError ==
    /\ phase = "memory"
    /\ storeSt = "done"
    /\ findSt = "done"
    /\ IF storeRes
         THEN Respond([pending EXCEPT !.memory = MemoryResult(storeRes, similarRes)])
         ELSE Respond(ErrorResp(500, "storeDeal failed", "memory"))
    /\ UNCHANGED <<jsonVars, conc, boot, mem, sent, version, env, pc, req, calls, stage1, stage2, fallback, pending,
                   storeSt, findSt, storeRes, similarRes, deals, matches>>

\* Promise.all resolves once both have settled; the response is sent.
AnalyzeMemoryJoined ==
    /\ phase = "memory"
    /\ storeSt = "done"
    /\ findSt = "done"
    /\ Respond([pending EXCEPT !.memory = MemoryResult(storeRes, similarRes)])
    /\ UNCHANGED <<jsonVars, conc, boot, mem, sent, version, env, pc, req, calls, stage1, stage2, fallback, pending,
                   storeSt, findSt, storeRes, similarRes, deals, matches>>

\* ------------------------------------------- server.js v1.0.0: /api/analyze
\* The 200 body of v1.0.0: no pipeline and no memory field.
V100Resp(result, emailCount, perCount) ==
    [NoResp EXCEPT !.status = 200, !.model = analysisModel(req.model),
                   !.result = result, !.email_count = emailCount,
                   !.analysis_count = perCount, !.complete = (emailCount = perCount)]

\* v1.0.0, up to the first await: the same two checks, then Stage-1.
V100AnalyzeStart(text, model) ==
    /\ version = "v1.0.0"
    /\ phase = "idle"
    /\ req' = [endpoint |-> "analyze", text |-> text, model |-> model]
    /\ IF ~env.OPENROUTER_API_KEY
         THEN /\ Respond(ErrorResp(500, "Server missing OPENROUTER_API_KEY", "config"))
              /\ UNCHANGED <<calls, sent, stage1>>
         ELSE IF Falsy(text)
         THEN /\ Respond(ErrorResp(400, "No email text provided", "validation"))
              /\ UNCHANGED <<calls, sent, stage1>>
         ELSE IF text.type # "string"
         THEN /\ \E handled \in BOOLEAN : Rejected(handled)
              /\ UNCHANGED <<calls, sent, stage1>>
         ELSE IF Trim(text.chars) = <<>>
         THEN /\ Respond(ErrorResp(400, "No email text provided", "validation"))
              /\ UNCHANGED <<calls, sent, stage1>>
         ELSE /\ Chat("stage1", preprocessModel, RawThread(text))
              /\ stage1' = InFlight
              /\ phase' = "stage1"
              /\ resp' = resp
    /\ UNCHANGED <<jsonVars, conc, boot, mem, version, env, stage2, fallback, pending, memVars>>

\* v1.0.0: the Stage-1 call settles.  A throw goes to the handler's one catch
\* (500 with the Stage-1 error); no emails is answered with 400; there is no
\* fallback call.
V100Stage1Settled(reply) ==
    /\ version = "v1.0.0"
    /\ phase = "stage1"
    /\ LET out == callLLM(reply)
           s1 == out.parsed
           emailCount == JsLength(OrEmpty(s1.emails))
       IN  /\ stage1' = out
           /\ IF out.state = "threw"
                THEN /\ Respond(ErrorResp(500, out.message, "stage1"))
                     /\ UNCHANGED <<calls, sent, stage2>>
                ELSE IF emailCount = 0 \/ emailCount = Undefined
                THEN /\ Respond(ErrorResp(400,
                            "Stage 1 failed to parse any emails from the thread", "stage1"))
                     /\ UNCHANGED <<calls, sent, stage2>>
                ELSE IF CleanThreadThrows(OrEmpty(s1.emails))
                THEN /\ Respond(ErrorResp(500, "TypeError", "cleanThread"))
                     /\ UNCHANGED <<calls, sent, stage2>>
                ELSE /\ Chat("stage2", analysisModel(req.model),
                                 Stage2Message(OrEmpty(s1.emails), emailCount))
                     /\ stage2' = InFlight
                     /\ phase' = "stage2"
                     /\ resp' = resp
    /\ UNCHANGED <<jsonVars, conc, boot, mem, version, env, req, fallback, pending, memVars>>

\* v1.0.0: the Stage-2 call settles; merge and respond.
V100Stage2Settled(reply) ==
    /\ version = "v1.0.0"
    /\ phase = "stage2"
    /\ LET out == callLLM(reply)
           s1 == stage1.parsed
           s2 == out.parsed
           emailCount == JsLength(OrEmpty(s1.emails))
           perCount == JsLength(OrEmpty(s2.per_email))
       IN  /\ stage2' = out
           /\ IF out.state = "threw"
                THEN Respond(ErrorResp(500, out.message, "stage2"))
                ELSE IF MergeThrows(OrEmpty(s1.emails))
                THEN Respond(ErrorResp(500, "TypeError", "merge"))
                ELSE Respond(V100Resp(MergeResult(s1, s2), emailCount, perCount))
    /\ UNCHANGED <<jsonVars, conc, boot, mem, sent, version, env, req, calls, stage1, fallback, pending, memVars>>

\* ------------------------------------- server.js v1.0.1: memory passthroughs
\* res.json(result) of a passthrough: the collaborator's result, success or not.
PassResp(success) ==
    [NoResp EXCEPT !.status = 200,
                   !.memory = [present |-> TRUE, stored |-> success, similar |-> "undefined"]]

NotConfigured == ErrorResp(503, "Pinecone not configured", "config")

\* Mutant of MemorySimilarStart: no credential check; without the key
\* getPinecone() throws inside findSimilarDeals, which resolves unsuccessfully.
MemorySimilarStart_NoKeyCheck(created) ==
    /\ version = "v1.0.1"
    /\ phase = "idle"
    /\ req' = [NoReq EXCEPT !.endpoint = "memory/similar"]
    /\ LET pc1 == getPinecone(pc, created /\ env.PINECONE_API_KEY)
           up == pc1 = "client" /\ env.OPENROUTER_API_KEY
       IN  /\ pc' = pc1
           /\ findSt' = IF up THEN "embed" ELSE "done"
           /\ calls' = IF up THEN Append(calls, Call("embed", "findSimilarDeals"))
                             ELSE calls
           /\ phase' = "memory/similar"
           /\ resp' = resp
    /\ UNCHANGED <<jsonVars, conc, boot, mem, sent, version, env, stage1, stage2, fallback, pending, storeSt, storeRes,
                   similarRes, deals, matches>>

\* POST /api/memory/similar: 503 without the key, else findSimilarDeals runs to
\* its first await: getPinecone(), then embedText(), which throws without
\* OPENROUTER_API_KEY and otherwise issues the embedding call.
MemorySimilarStart(created) ==
    /\ version = "v1.0.1"
    /\ phase = "idle"
    /\ req' = [NoReq EXCEPT !.endpoint = "memory/similar"]
    /\ IF ~env.PINECONE_API_KEY
         THEN /\ Respond(NotConfigured)
              /\ UNCHANGED <<calls, pc, findSt>>
         ELSE LET pc1 == getPinecone(pc, created)
                  up == pc1 = "client" /\ env.OPENROUTER_API_KEY
              IN  /\ pc' = pc1
                  /\ findSt' = IF up THEN "embed" ELSE "done"
                  /\ calls' = IF up THEN Append(calls, Call("embed", "findSimilarDeals"))
                                    ELSE calls
                  /\ phase' = "memory/similar"
                  /\ resp' = resp
    /\ UNCHANGED <<jsonVars, conc, boot, mem, sent, version, env, stage1, stage2, fallback, pending, storeSt, storeRes,
                   similarRes, deals, matches>>

\* findSimilarDeals has resolved: res.json(result).
MemorySimilarDone ==
    /\ phase = "memory/similar"
    /\ findSt = "done"
    /\ Respond(PassResp(similarRes))
    /\ UNCHANGED <<jsonVars, conc, boot, mem, sent, version, env, pc, req, calls, stage1, stage2, fallback, pending,
                   storeSt, findSt, storeRes, similarRes, deals, matches>>

\* POST /api/memory/cpp: 503 without the key, 400 without user_id, else
\* storeCPP runs to its first await (the same steps as storeDeal).
MemoryCppStart(hasUserId, created) ==
    /\ version = "v1.0.1"
    /\ phase = "idle"
    /\ req' = [NoReq EXCEPT !.endpoint = "memory/cpp"]
    /\ IF ~env.PINECONE_API_KEY
         THEN /\ Respond(NotConfigured)
              /\ UNCHANGED <<calls, pc, storeSt>>
         ELSE IF ~hasUserId
         THEN /\ Respond(ErrorResp(400, "user_id required", "validation"))
              /\ UNCHANGED <<calls, pc, storeSt>>
         ELSE LET pc1 == getPinecone(pc, created)
                  up == pc1 = "client" /\ env.OPENROUTER_API_KEY
              IN  /\ pc' = pc1
                  /\ storeSt' = IF up THEN "embed" ELSE "done"
                  /\ calls' = IF up THEN Append(calls, Call("embed", "storeCPP")) ELSE calls
                  /\ phase' = "memory/cpp"
                  /\ resp' = resp
    /\ UNCHANGED <<jsonVars, conc, boot, mem, sent, version, env, stage1, stage2, fallback, pending, findSt, storeRes,
                   similarRes, deals, matches>>

\* storeCPP has resolved: res.json(result).
MemoryCppDone ==
    /\ phase = "memory/cpp"
    /\ storeSt = "done"
    /\ Respond(PassResp(storeRes))
    /\ UNCHANGED <<jsonVars, conc, boot, mem, sent, version, env, pc, req, calls, stage1, stage2, fallback, pending,
                   storeSt, findSt, storeRes, similarRes, deals, matches>>

\* GET /api/memory/cpp/:userId: 503 without the key, else getCPP: getPinecone()
\* and index.fetch; a failed construction resolves with success: false.
MemoryCppGetStart(created) ==
    /\ version = "v1.0.1"
    /\ phase = "idle"
    /\ req' = [NoReq EXCEPT !.endpoint = "memory/cpp/:userId"]
    /\ IF ~env.PINECONE_API_KEY
         THEN /\ Respond(NotConfigured)
              /\ UNCHANGED <<calls, pc>>
         ELSE LET pc1 == getPinecone(pc, created)
              IN  /\ pc' = pc1
                  /\ IF pc1 = "client"
                       THEN /\ calls' = Append(calls, Call("pinecone", "fetch"))
                            /\ phase' = "memory/cpp/:userId"
                            /\ resp' = resp
                       ELSE /\ Respond(PassResp(FALSE))
                            /\ calls' = calls
    /\ UNCHANGED <<jsonVars, conc, boot, mem, sent, version, env, stage1, stage2, fallback, pending, storeSt, findSt,
                   storeRes, similarRes, deals, matches>>

\* index.fetch settles: the record, no record, or a throw.
MemoryCppGetSettled(found) ==
    /\ phase = "memory/cpp/:userId"
    /\ Respond(PassResp(found))
    /\ UNCHANGED <<jsonVars, conc, boot, mem, sent, version, env, pc, req, calls, stage1, stage2, fallback, pending,
                   storeSt, findSt, storeRes, similarRes, deals, matches>>

\* The three indexes getStats describes, one after the other.
INDEXES == <<"clearsignals-deals", "clearsignals-cpp", "clearsignals-intents">>

\* GET /api/memory/stats: 503 without the key, else getStats: getPinecone()
\* and describeIndexStats of the first index.
MemoryStatsStart(created) ==
    /\ version = "v1.0.1"
    /\ phase = "idle"
    /\ req' = [NoReq EXCEPT !.endpoint = "memory/stats"]
    /\ IF ~env.PINECONE_API_KEY
         THEN /\ Respond(NotConfigured)
              /\ UNCHANGED <<calls, pc>>
         ELSE LET pc1 == getPinecone(pc, created)
              IN  /\ pc' = pc1
                  /\ IF pc1 = "client"
                       THEN /\ calls' = Append(calls, Call("pinecone", INDEXES[1]))
                            /\ phase' = "memory/stats"
                            /\ resp' = resp
                       ELSE /\ Respond(PassResp(FALSE))
                            /\ calls' = calls
    /\ UNCHANGED <<jsonVars, conc, boot, mem, sent, version, env, stage1, stage2, fallback, pending, storeSt, findSt,
                   storeRes, similarRes, deals, matches>>

\* A describeIndexStats settles (its own try/catch records a failure in the
\* stats); the next index is described, or the result is sent.
MemoryStatsSettled ==
    /\ phase = "memory/stats"
    /\ LET described == Len(calls)
       IN  IF described < Len(INDEXES)
             THEN /\ calls' = Append(calls, Call("pinecone", INDEXES[described + 1]))
                  /\ UNCHANGED <<phase, resp>>
             ELSE /\ Respond(PassResp(TRUE))
                  /\ calls' = calls
    /\ UNCHANGED <<jsonVars, conc, boot, mem, sent, version, env, pc, req, stage1, stage2, fallback, pending,
                   storeSt, findSt, storeRes, similarRes, deals, matches>>

\* ------------------------------------------- server.js v1.0.1: /api/health
\* res.json({status: 'ok', version, hasOpenRouterKey, hasPineconeKey, pinecone})
HealthResp(stats) ==
    [NoResp EXCEPT !.status = 200,
                   !.health = [status |-> "ok",
                               hasOpenRouterKey |-> env.OPENROUTER_API_KEY,
                               hasPineconeKey |-> env.PINECONE_API_KEY,
                               pinecone |-> stats]]

\* Mutant of HealthStart: a client that cannot be constructed fails the
\* health check.
HealthStart_FailsWithoutClient(created) ==
    /\ version = "v1.0.1"
    /\ phase = "idle"
    /\ req' = [NoReq EXCEPT !.endpoint = "health"]
    /\ IF ~env.PINECONE_API_KEY
         THEN /\ Respond(HealthResp("disabled"))
              /\ UNCHANGED <<calls, pc>>
         ELSE LET pc1 == getPinecone(pc, created)
              IN  /\ pc' = pc1
                  /\ IF pc1 = "client"
                       THEN /\ calls' = Append(calls, Call("pinecone", INDEXES[1]))
                            /\ phase' = "health"
                            /\ resp' = resp
                       ELSE /\ Respond(ErrorResp(500, "Pinecone client", "health"))
                            /\ calls' = calls
    /\ UNCHANGED <<jsonVars, conc, boot, mem, sent, version, env, stage1, stage2, fallback, pending, storeSt, findSt,
                   storeRes, similarRes, deals, matches>>

\* GET /api/health: without the Pinecone key the body is sent at once with
\* {enabled: false}; with it getStats runs: getPinecone(), whose throw getStats
\* catches ({success: false}), then describeIndexStats of the first index.
HealthStart(created) ==
    /\ version = "v1.0.1"
    /\ phase = "idle"
    /\ req' = [NoReq EXCEPT !.endpoint = "health"]
    /\ IF ~env.PINECONE_API_KEY
         THEN /\ Respond(HealthResp("disabled"))
              /\ UNCHANGED <<calls, pc>>
         ELSE LET pc1 == getPinecone(pc, created)
              IN  /\ pc' = pc1
                  /\ IF pc1 = "client"
                       THEN /\ calls' = Append(calls, Call("pinecone", INDEXES[1]))
                            /\ phase' = "health"
                            /\ resp' = resp
                       ELSE /\ Respond(HealthResp("failed"))
                            /\ calls' = calls
    /\ UNCHANGED <<jsonVars, conc, boot, mem, sent, version, env, stage1, stage2, fallback, pending, storeSt, findSt,
                   storeRes, similarRes, deals, matches>>

\* A describeIndexStats of getStats settles, successfully or not (its own
\* try/catch puts a failure in that index's entry); the next index is
\* described, or the body is sent with the stats.
HealthStatsSettled ==
    /\ phase = "health"
    /\ LET described == Len(calls)
       IN  IF described < Len(INDEXES)
             THEN /\ calls' = Append(calls, Call("pinecone", INDEXES[described + 1]))
                  /\ UNCHANGED <<phase, resp>>
             ELSE /\ Respond(HealthResp("stats"))
                  /\ calls' = calls
    /\ UNCHANGED <<jsonVars, conc, boot, mem, sent, version, env, pc, req, stage1, stage2, fallback, pending,
                   storeSt, findSt, storeRes, similarRes, deals, matches>>

\* The choices of client construction that matter: the second only when the
\* first construction failed.
Created == {<<TRUE, TRUE>>, <<FALSE, TRUE>>, <<FALSE, FALSE>>}

Next ==
    \/ \E text \in Texts, model \in ModelKeys : AnalyzeStart(text, model)
    \/ \E reply \in Replies(Stage1Objects) : AnalyzeStage1Settled(reply)
    \/ \E reply \in Replies(Stage2Objects), c \in Created :
          AnalyzeStage2Settled(reply, c[1], c[2])
    \/ \E reply \in Replies(FallbackObjects), c \in Created :
          AnalyzeFallbackSettled(reply, c[1], c[2])
    \/ \E ok \in BOOLEAN : StoreEmbedSettled(ok)
    \/ \E ok \in BOOLEAN : StoreUpsertSettled(ok)
    \/ \E ok \in BOOLEAN : FindEmbedSettled(ok)
    \/ \E ok \in BOOLEAN : FindQuerySettled(ok)
    \/ AnalyzeMemoryJoined
    \/ \E text \in Texts, model \in ModelKeys : V100AnalyzeStart(text, model)
    \/ \E reply \in Replies(Stage1Objects) : V100Stage1Settled(reply)
    \/ \E reply \in Replies(Stage2Objects) : V100Stage2Settled(reply)
    \/ \E created \in BOOLEAN : MemorySimilarStart(created)
    \/ MemorySimilarDone
    \/ \E hasUserId, created \in BOOLEAN : MemoryCppStart(hasUserId, created)
    \/ MemoryCppDone
    \/ \E created \in BOOLEAN : MemoryCppGetStart(created)
    \/ \E found \in BOOLEAN : MemoryCppGetSettled(found)
    \/ \E created \in BOOLEAN : MemoryStatsStart(created)
    \/ MemoryStatsSettled
    \/ \E created \in BOOLEAN : HealthStart(created)
    \/ HealthStatsSettled

Spec == Init /\ [][Next]_vars

\* ======================================================= the gateway, alone
\* The gateway and the cleaner under it, run on one completion: which answer
\* the chat-completion endpoint gave is chosen at the start.

\* Longest text made of arbitrary characters, and the length of a text too
\* long to be quoted whole in an error.
MaxShort == 3
LongLen == 310

\* Builders of completion texts.
Obj(inner) == <<"{">> \o inner \o <<"}">>
Lit(chars) == <<Quote>> \o chars \o <<Quote>>
Key(k) == <<Quote, k, Quote, ":">>
Fenced(tag, text) == Fence \o tag \o <<LF>> \o text \o <<LF>> \o Fence
FenceTags == {<<>>, JsonTag, <<"J", "S", "O", "N">>}

\* Valid JSON object texts, as a model that follows its instructions writes
\* them: compact or indented, control characters escaped.
ValidTexts ==
    { Obj(<<>>),
      Obj(Key("a") \o <<"1">>),
      Obj(Key("a") \o Lit(<<"x">>)),
      Obj(Key("a") \o <<"[", "1", ",", "2", "]">>),
      Obj(Key("a") \o Obj(Key("n") \o <<"1">>) \o <<",">> \o Key("s") \o Lit(<<"y">>)),
      Obj(Key("a") \o Lit(<<",", "}">>)),
      Obj(Key("a") \o Lit(<<"{">>)),
      Obj(Key("a") \o Lit(<<Backslash, Quote>>)),
      Obj(Key("a") \o Lit(<<"x", Backslash, "n", "y">>)),
      Obj(Key("a") \o Lit(<<"x", Backslash, "f", "y">>)),
      Obj(<<LF, " ">> \o Key("a") \o <<" ">> \o Lit(<<"x", Backslash, "n", "y">>) \o <<LF>>) }

\* The text with a comma put before every "}" and "]" that closes a non-empty
\* object or array.
RECURSIVE AddCommas(_, _, _, _)
AddCommas(s, i, inString, last) ==
    IF i > Len(s) THEN <<>>
    ELSE IF inString
      THEN IF s[i] = Backslash
             THEN <<s[i], s[i + 1]>> \o AddCommas(s, i + 2, TRUE, last)
             ELSE <<s[i]>> \o AddCommas(s, i + 1, s[i] # Quote, s[i])
    ELSE IF s[i] \in {"}", "]"} /\ last \notin {"{", "["}
      THEN <<",", s[i]>> \o AddCommas(s, i + 1, FALSE, s[i])
    ELSE <<s[i]>> \o AddCommas(s, i + 1, s[i] = Quote,
                                IF s[i] \in JsonSpace THEN last ELSE s[i])

WithTrailingCommas(text) == AddCommas(text, 1, FALSE, "")

\* The text with the escapes \n, \r, \t, \f of its strings written as the raw
\* control characters they stand for.
RECURSIVE WithRawControls(_)
WithRawControls(s) ==
    IF s = <<>> THEN <<>>
    ELSE IF Head(s) = Backslash /\ Len(s) >= 2
      THEN (IF s[2] \in {"n", "r", "t", "f"} THEN <<Unescape(s[2])>> ELSE <<s[1], s[2]>>)
           \o WithRawControls(SubSeq(s, 3, Len(s)))
    ELSE <<Head(s)>> \o WithRawControls(Tail(s))

\* Completion contents: valid objects; fenced; with trailing commas; with raw
\* control characters; with text around them; short arbitrary texts; and one
\* long text no tier can parse.
RawTexts ==
    ValidTexts
    \cup {Fenced(tag, v) : tag \in FenceTags, v \in ValidTexts}
    \cup {WithTrailingCommas(v) : v \in ValidTexts}
    \cup {Fenced(tag, WithTrailingCommas(v)) : tag \in FenceTags, v \in ValidTexts}
    \cup {WithRawControls(v) : v \in ValidTexts}
    \cup {<<"x", " ">> \o v \o <<" ", "y">> : v \in ValidTexts}
    \cup {v \o Obj(<<>>) : v \in ValidTexts}
    \cup {WithRawControls(v) \o Obj(<<>>) : v \in ValidTexts}
    \cup {<<"}">> \o v \o Obj(<<>>) : v \in ValidTexts}
    \cup SeqUpTo({"{", "}", "x", Quote}, MaxShort)
    \cup {Obj([i \in 1..LongLen |-> "x"])}

\* The bodies of a non-success answer: none, a short one, and one too long
\* to be quoted whole in an error.
ErrorBodies == {<<>>, <<"x", " ", "y">>, [i \in 1..LongLen |-> "x"]}

\* The endpoint's answers: a non-success status with its body, or a
\* completion whose content is empty or one of the texts.
Completions ==
    {[NoCompletion EXCEPT !.errText = e] : e \in ErrorBodies}
    \cup {[NoCompletion EXCEPT !.ok = TRUE, !.content = c] : c \in RawTexts \cup {<<>>}}

InitGateway ==
    /\ version = "v1.0.1"
    /\ env = [OPENROUTER_API_KEY |-> TRUE, PINECONE_API_KEY |-> FALSE]
    /\ pc = "null"
    /\ req = NoReq
    /\ phase = "idle"
    /\ calls = <<>>
    /\ stage1 = NotCalled
    /\ stage2 = NotCalled
    /\ fallback = NotCalled
    /\ pending = NoResp
    /\ storeSt = "idle"
    /\ findSt = "idle"
    /\ storeRes = FALSE
    /\ similarRes = FALSE
    /\ resp = NoResp
    /\ deals = PastDeals
    /\ matches = {}
    /\ sent = <<>>
    /\ cleaner \in Cleaners
    /\ completion \in Completions
    /\ gwPhase = "idle"
    /\ gwCalls = 0
    /\ gwResult = NoResult
    /\ conc = NoConc
    /\ boot = NoBoot
    /\ mem = NoMem

\* Mutant of callLLMResult: the error of a non-success status quotes the
\* whole body.
callLLMResult_WholeBody(which, c) ==
    IF ~c.ok THEN Thrown("OpenRouter <status>: ", c.errText, <<>>)
    ELSE IF c.content = <<>> THEN Thrown("Empty response from model", <<>>, <<>>)
    ELSE IF Clean(which, c.content).state = "returned"
      THEN [Clean(which, c.content) EXCEPT !.raw = c.content]
    ELSE Clean(which, c.content)

\* callLLM from the answer of its fetch on: the status check (the Error
\* quotes errText.slice(0, 300)), the content check, cleanJSON.
callLLMResult(which, c) ==
    IF ~c.ok THEN Thrown("OpenRouter <status>: ", slice(c.errText, 0, ExcerptLen), <<>>)
    ELSE IF c.content = <<>> THEN Thrown("Empty response from model", <<>>, <<>>)
    ELSE IF Clean(which, c.content).state = "returned"
      THEN [Clean(which, c.content) EXCEPT !.raw = c.content]
    ELSE Clean(which, c.content)

\* callLLM up to its await: the fetch is issued.
CallLLMFetch ==
    /\ cleaner \in {"v1.0.1", "v1.0.0"}
    /\ gwPhase = "idle"
    /\ gwPhase' = "fetch"
    /\ gwCalls' = gwCalls + 1
    /\ UNCHANGED <<appVars, conc, boot, mem, cleaner, completion, gwResult>>

\* Mutant of CallLLMSettled: a non-success status is retried once.
CallLLMSettled_Retries ==
    /\ cleaner \in {"v1.0.1", "v1.0.0"}
    /\ gwPhase = "fetch"
    /\ IF ~completion.ok /\ gwCalls < 2
         THEN /\ gwCalls' = gwCalls + 1
              /\ UNCHANGED <<gwPhase, gwResult>>
         ELSE /\ gwResult' = callLLMResult(cleaner, completion)
              /\ gwPhase' = "done"
              /\ gwCalls' = gwCalls
    /\ UNCHANGED <<appVars, conc, boot, mem, cleaner, completion>>

\* The fetch settles: callLLM returns {raw, parsed} or throws.
CallLLMSettled ==
    /\ cleaner \in {"v1.0.1", "v1.0.0"}
    /\ gwPhase = "fetch"
    /\ gwResult' = callLLMResult(cleaner, completion)
    /\ gwPhase' = "done"
    /\ UNCHANGED <<appVars, conc, boot, mem, cleaner, completion, gwCalls>>

\* The MVP's analyze up to its await: the fetch is issued.
MvpAnalyzeFetch ==
    /\ cleaner = "mvp"
    /\ gwPhase = "idle"
    /\ gwPhase' = "fetch"
    /\ gwCalls' = gwCalls + 1
    /\ UNCHANGED <<appVars, conc, boot, mem, cleaner, completion, gwResult>>

\* The MVP's fetch settles: the content, or "" without one, goes to
\* cleanAndParseJSON; a throw is caught and shown.
MvpAnalyzeSettled ==
    /\ cleaner = "mvp"
    /\ gwPhase = "fetch"
    /\ gwResult' = [Clean(cleaner, completion.content) EXCEPT !.raw = completion.content]
    /\ gwPhase' = "done"
    /\ UNCHANGED <<appVars, conc, boot, mem, cleaner, completion, gwCalls>>

NextGateway ==
    \/ CallLLMFetch
    \/ CallLLMSettled
    \/ MvpAnalyzeFetch
    \/ MvpAnalyzeSettled

SpecGateway == InitGateway /\ [][NextGateway]_vars

\* ============================================ two requests served at once
\* One v1.0.1 process serves two validated /api/analyze requests whose steps
\* interleave at their awaits.  Each invocation of the handler has its own
\* locals; the invocations share process.env, pinecone.js's `pc` and the
\* deals index.

\* The model outputs the requests receive.
ConcKeys == {"undefined", "haiku"}
ConcStage1Replies ==
    {[kind |-> "neterr", obj |-> EmptyObj]}
    \cup {[kind |-> "json", obj |-> [EmptyObj EXCEPT !.emails = e]] :
            e \in {Arr(<<[kind |-> "null", index |-> 0]>>),
                   Arr(<<[kind |-> "msg", index |-> 1]>>),
                   Arr(<<[kind |-> "msg", index |-> 1], [kind |-> "msg", index |-> 2]>>)}}
ConcStage2Replies ==
    {[kind |-> "status", obj |-> EmptyObj]}
    \cup {[kind |-> "json",
           obj |-> [EmptyObj EXCEPT !.per_email = Arr(<<[kind |-> "analysis", index |-> 1]>>),
                                    !.final = f]] :
            f \in {"nostage", "staged"}}
ConcFallbackReplies ==
    {[kind |-> "empty", obj |-> EmptyObj],
     [kind |-> "json",
      obj |-> [EmptyObj EXCEPT !.parsed_emails = Arr(<<[kind |-> "summary", index |-> 1]>>),
                               !.per_email = Arr(<<[kind |-> "analysis", index |-> 1]>>),
                               !.final = "staged"]]}

\* How close index.query finds a stored vector to the query vector: the two
\* came from the same text, or the embedding model put them at least, or less
\* than, a minimum similarity apart.
Scores == {"atleast", "below"}
Similarity(stored, query, score) == IF stored = query THEN "same" ELSE score

\* 'thread_' + Date.now(), read by request r: the clock counts milliseconds,
\* so a request that reaches the line within the millisecond in which the
\* other request read the clock (sameMs) gets the other's identifier.
ThreadOf(c, r, sameMs) ==
    LET other == CHOOSE q \in Requests : q # r
    IN  IF sameMs /\ c.reqs[other].threadId # "" THEN c.reqs[other].threadId
        ELSE IF r = 1 THEN "thread_1" ELSE "thread_2"

\* The text storeDeal embeds for an analysis (dealSummary) and the text
\* findSimilarDeals embeds for it (queryText).
dealSummary(result) == [text |-> "dealSummary", of |-> result]
queryText(result) == [text |-> "queryText", of |-> result]

InitConc ==
    /\ version = "v1.0.1"
    /\ env \in {[OPENROUTER_API_KEY |-> TRUE, PINECONE_API_KEY |-> k] : k \in BOOLEAN}
    /\ pc = "null"
    /\ req = NoReq
    /\ phase = "idle"
    /\ calls = <<>>
    /\ stage1 = NotCalled
    /\ stage2 = NotCalled
    /\ fallback = NotCalled
    /\ pending = NoResp
    /\ storeSt = "idle"
    /\ findSt = "idle"
    /\ storeRes = FALSE
    /\ similarRes = FALSE
    /\ resp = NoResp
    /\ deals = PastDeals
    /\ matches = {}
    /\ sent = <<>>
    /\ cleaner = "v1.0.1"
    /\ completion = NoCompletion
    /\ gwPhase = "off"
    /\ gwCalls = 0
    /\ gwResult = NoResult
    \* startup: initIndexes() has called getPinecone() when the key is set; the
    \* client exists unless its construction threw.
    /\ conc \in {NoConc} \cup (IF env.PINECONE_API_KEY
                                 THEN {[NoConc EXCEPT !.pc = 1, !.built = 1]} ELSE {})
    /\ boot = NoBoot
    /\ mem = NoMem

\* Mutant of getPineconeOf: a client is constructed on every call.
getPineconeOf_AlwaysNew(c, created) ==
    IF ~env.PINECONE_API_KEY
      THEN [pc |-> c.pc, built |-> c.built, client |-> 0]
    ELSE IF created
      THEN [pc |-> c.built + 1, built |-> c.built + 1, client |-> c.built + 1]
    ELSE [pc |-> c.pc, built |-> c.built, client |-> c.pc]

\* getPinecone() in a process whose `pc` and constructions so far are c's: the
\* client it has, else (key absent) a throw, else a new client, numbered by
\* its construction, unless the constructor throws.  client 0: it threw.
getPineconeOf(c, created) ==
    IF c.pc # 0
      THEN [pc |-> c.pc, built |-> c.built, client |-> c.pc]
    ELSE IF ~env.PINECONE_API_KEY
      THEN [pc |-> 0, built |-> c.built, client |-> 0]
    ELSE IF created
      THEN [pc |-> c.built + 1, built |-> c.built + 1, client |-> c.built + 1]
    ELSE [pc |-> 0, built |-> c.built, client |-> 0]

\* The 200 bodies, for a request whose model key is `model`.
ConcTwoStageBody(model, s1, s2) ==
    [NoResp EXCEPT !.status = 200, !.pipeline = "two-stage",
                   !.model = analysisModel(model), !.result = MergeResult(s1, s2),
                   !.email_count = JsLength(OrEmpty(s1.emails)),
                   !.analysis_count = JsLength(OrEmpty(s2.per_email)),
                   !.complete = (JsLength(OrEmpty(s1.emails)) = JsLength(OrEmpty(s2.per_email))),
                   !.memory = DefaultMemory]
ConcFallbackBody(model, fb) ==
    [NoResp EXCEPT !.status = 200, !.pipeline = "fallback-single",
                   !.model = analysisModel(model), !.result = fb,
                   !.email_count = JsLength(OrEmpty(fb.parsed_emails)),
                   !.analysis_count = JsLength(OrEmpty(fb.per_email)),
                   !.complete = (JsLength(OrEmpty(fb.parsed_emails)) = JsLength(OrEmpty(fb.per_email))),
                   !.memory = DefaultMemory]

\* Request r's handler up to its first await (credential and text were
\* checked): the Stage-1 call is issued.
ConcAnalyzeStart(r, model) ==
    /\ conc.reqs[r].phase = "idle"
    /\ conc' = [conc EXCEPT !.reqs[r].phase = "stage1",
                            !.reqs[r].model = model,
                            !.reqs[r].stage1 = InFlight]
    /\ UNCHANGED <<appVars, jsonVars, boot, mem>>

\* Request r's Stage-1 call settles: Stage-2, the Fallback, or the outer catch.
ConcStage1Settled(r, reply) ==
    /\ conc.reqs[r].phase = "stage1"
    /\ LET out == callLLM(reply)
           emails == OrEmpty(out.parsed.emails)
           twoStage == out.state = "returned" /\ JsLength(emails) > 0
       IN  conc' = [conc EXCEPT
                !.reqs[r].stage1 = out,
                !.reqs[r].phase = IF ~twoStage THEN "fallback"
                                  ELSE IF CleanThreadThrows(emails) THEN "done"
                                  ELSE "stage2",
                !.reqs[r].body = IF twoStage /\ CleanThreadThrows(emails)
                                   THEN ErrorResp(500, "TypeError", "cleanThread")
                                   ELSE NoResp,
                !.reqs[r].stage2 = IF twoStage /\ ~CleanThreadThrows(emails)
                                     THEN InFlight ELSE NotCalled,
                !.reqs[r].fallback = IF twoStage THEN NotCalled ELSE InFlight]
    /\ UNCHANGED <<appVars, jsonVars, boot, mem>>

\* Request r has assembled its 200 body: with the gate open storeDeal and
\* findSimilarDeals are called, each up to its first await; else the body is
\* sent.
ConcFinish(r, body, created1, created2, sameMs) ==
    IF MemoryGate(body.result)
      THEN LET g1 == getPineconeOf(conc, created1)
               g2 == getPineconeOf(g1, created2)
           IN  [conc EXCEPT !.pc = g2.pc, !.built = g2.built,
                            !.reqs[r].phase = "memory",
                            !.reqs[r].body = body,
                            !.reqs[r].threadId = ThreadOf(conc, r, sameMs),
                            !.reqs[r].storeClient = g1.client,
                            !.reqs[r].findClient = g2.client,
                            !.reqs[r].storeSt = IF g1.client # 0 THEN "embed" ELSE "done",
                            !.reqs[r].findSt = IF g2.client # 0 THEN "embed" ELSE "done"]
      ELSE [conc EXCEPT !.reqs[r].phase = "done", !.reqs[r].body = body]

\* Mutant of ConcStage2Settled: s1 is a variable of the module, holding the
\* Stage-1 output of whichever request assigned it last.
ConcStage2Settled_SharedS1(r, reply, created1, created2, sameMs) ==
    /\ conc.reqs[r].phase = "stage2"
    /\ LET out == callLLM(reply)
           other == CHOOSE q \in Requests : q # r
           s1 == IF conc.reqs[other].stage1.state = "returned"
                   THEN conc.reqs[other].stage1.parsed ELSE conc.reqs[r].stage1.parsed
           failed == IF out.state = "threw" THEN ErrorResp(500, out.message, "stage2")
                     ELSE ErrorResp(500, "TypeError", "merge")
           c1 == [conc EXCEPT !.reqs[r].stage2 = out]
       IN  conc' = IF out.state = "threw" \/ MergeThrows(OrEmpty(s1.emails))
                     THEN [c1 EXCEPT !.reqs[r].phase = "done", !.reqs[r].body = failed]
                     ELSE [ConcFinish(r, ConcTwoStageBody(conc.reqs[r].model, s1, out.parsed),
                                      created1, created2, sameMs)
                             EXCEPT !.reqs[r].stage2 = out]
    /\ UNCHANGED <<appVars, jsonVars, boot, mem>>

\* Request r's Stage-2 call settles: the outer catch, or the merged result
\* and then the memory side effect or the response.
ConcStage2Settled(r, reply, created1, created2, sameMs) ==
    /\ conc.reqs[r].phase = "stage2"
    /\ LET out == callLLM(reply)
           s1 == conc.reqs[r].stage1.parsed
           failed == IF out.state = "threw" THEN ErrorResp(500, out.message, "stage2")
                     ELSE ErrorResp(500, "TypeError", "merge")
           c1 == [conc EXCEPT !.reqs[r].stage2 = out]
       IN  conc' = IF out.state = "threw" \/ MergeThrows(OrEmpty(s1.emails))
                     THEN [c1 EXCEPT !.reqs[r].phase = "done", !.reqs[r].body = failed]
                     ELSE [ConcFinish(r, ConcTwoStageBody(conc.reqs[r].model, s1, out.parsed),
                                      created1, created2, sameMs)
                             EXCEPT !.reqs[r].stage2 = out]
    /\ UNCHANGED <<appVars, jsonVars, boot, mem>>

\* Request r's Fallback call settles.
ConcFallbackSettled(r, reply, created1, created2, sameMs) ==
    /\ conc.reqs[r].phase = "fallback"
    /\ LET out == callLLM(reply)
       IN  conc' = IF out.state = "threw"
                     THEN [conc EXCEPT !.reqs[r].fallback = out,
                                       !.reqs[r].phase = "done",
                                       !.reqs[r].body = ErrorResp(500, out.message, "fallback")]
                     ELSE [ConcFinish(r, ConcFallbackBody(conc.reqs[r].model, out.parsed),
                                      created1, created2, sameMs)
                             EXCEPT !.reqs[r].fallback = out]
    /\ UNCHANGED <<appVars, jsonVars, boot, mem>>

\* Request r's storeDeal: embedText(dealSummary) settles; index.upsert is issued.
ConcStoreEmbedSettled(r, ok) ==
    /\ conc.reqs[r].storeSt = "embed"
    /\ conc' = [conc EXCEPT !.reqs[r].storeSt = IF ok THEN "upsert" ELSE "done"]
    /\ UNCHANGED <<appVars, jsonVars, boot, mem>>

\* Request r's storeDeal: index.upsert settles; the deal is in the index under
\* the request's thread id, with the vector of its dealSummary, in the place
\* of any record stored under that id before.
ConcStoreUpsertSettled(r, ok) ==
    /\ conc.reqs[r].storeSt = "upsert"
    /\ conc' = [conc EXCEPT
            !.reqs[r].storeSt = "done",
            !.reqs[r].storeOk = ok,
            !.index = IF ok
                        THEN {d \in @ : d.id # conc.reqs[r].threadId}
                             \cup {[id |-> conc.reqs[r].threadId,
                                    text |-> dealSummary(conc.reqs[r].body.result)]}
                        ELSE @]
    /\ UNCHANGED <<appVars, jsonVars, boot, mem>>

\* Request r's findSimilarDeals: embedText(queryText) settles; index.query is
\* issued, the deals stored by then being visible to it.
ConcFindEmbedSettled(r, ok) ==
    /\ conc.reqs[r].findSt = "embed"
    /\ conc' = [conc EXCEPT !.reqs[r].findSt = IF ok THEN "query" ELSE "done",
                            !.reqs[r].visible = IF ok THEN {d.id : d \in conc.index} ELSE {}]
    /\ UNCHANGED <<appVars, jsonVars, boot, mem>>

\* Request r's findSimilarDeals: index.query settles with the deals the index
\* holds (fewer than topK), each with its similarity to the query vector.
ConcFindQuerySettled(r, ok, score) ==
    /\ conc.reqs[r].findSt = "query"
    /\ conc' = [conc EXCEPT
            !.reqs[r].findSt = "done",
            !.reqs[r].findOk = ok,
            !.reqs[r].matches =
                IF ok THEN {[thread_id |-> d.id,
                             similarity |-> Similarity(d.text,
                                               queryText(conc.reqs[r].body.result), score)] :
                            d \in conc.index}
                      ELSE {}]
    /\ UNCHANGED <<appVars, jsonVars, boot, mem>>

\* Request r's Promise.all resolves: the response is sent.
ConcMemoryJoined(r) ==
    /\ conc.reqs[r].phase = "memory"
    /\ conc.reqs[r].storeSt = "done"
    /\ conc.reqs[r].findSt = "done"
    /\ conc' = [conc EXCEPT
            !.reqs[r].phase = "done",
            !.reqs[r].body.memory = MemoryResult(conc.reqs[r].storeOk, conc.reqs[r].findOk)]
    /\ UNCHANGED <<appVars, jsonVars, boot, mem>>

NextConc ==
    \/ \E r \in Requests, model \in ConcKeys : ConcAnalyzeStart(r, model)
    \/ \E r \in Requests, reply \in ConcStage1Replies : ConcStage1Settled(r, reply)
    \/ \E r \in Requests, reply \in ConcStage2Replies, c \in Created, sameMs \in BOOLEAN :
          ConcStage2Settled(r, reply, c[1], c[2], sameMs)
    \/ \E r \in Requests, reply \in ConcFallbackReplies, c \in Created, sameMs \in BOOLEAN :
          ConcFallbackSettled(r, reply, c[1], c[2], sameMs)
    \/ \E r \in Requests, ok \in BOOLEAN : ConcStoreEmbedSettled(r, ok)
    \/ \E r \in Requests, ok \in BOOLEAN : ConcStoreUpsertSettled(r, ok)
    \/ \E r \in Requests, ok \in BOOLEAN : ConcFindEmbedSettled(r, ok)
    \/ \E r \in Requests, ok \in BOOLEAN, score \in Scores : ConcFindQuerySettled(r, ok, score)
    \/ \E r \in Requests : ConcMemoryJoined(r)

SpecConc == InitConc /\ [][NextConc]_vars

\* ================================================================== startup
\* server.js v1.0.1 is loaded by a new process: with the Pinecone key set
\* initIndexes() is called and left to run (its promise has a .then and a
\* .catch), and the script goes on to app.listen.  The indexes the service
\* holds outlive the process.

\* How many times the process is started.
MaxRuns == 2

\* The three fixed names, and a name of the service that is none of them.
IndexNames == {INDEXES[k] : k \in DOMAIN INDEXES}
OtherIndexes == {"another-index"}

InitBoot ==
    /\ version = "v1.0.1"
    /\ env \in [OPENROUTER_API_KEY : BOOLEAN, PINECONE_API_KEY : BOOLEAN]
    /\ pc = "null"
    /\ req = NoReq
    /\ phase = "idle"
    /\ calls = <<>>
    /\ stage1 = NotCalled
    /\ stage2 = NotCalled
    /\ fallback = NotCalled
    /\ pending = NoResp
    /\ storeSt = "idle"
    /\ findSt = "idle"
    /\ storeRes = FALSE
    /\ similarRes = FALSE
    /\ resp = NoResp
    /\ deals = PastDeals
    /\ matches = {}
    /\ sent = <<>>
    /\ cleaner = "v1.0.1"
    /\ completion = NoCompletion
    /\ gwPhase = "off"
    /\ gwCalls = 0
    /\ gwResult = NoResult
    /\ conc = NoConc
    /\ boot \in {[NoBoot EXCEPT !.existing = e] : e \in SUBSET (IndexNames \cup OtherIndexes)}
    /\ mem = NoMem

\* What a step of the startup leaves alone: the request being served.
reqVars == <<req, phase, calls, stage1, stage2, fallback, pending, storeSt, findSt,
             storeRes, similarRes, resp, deals, matches, sent>>

\* Mutant of InitLoop: the listing is not consulted.
InitLoop_IgnoresListing(b, from) ==
    LET missing == (from + 1)..Len(INDEXES)
    IN  IF missing = {}
          THEN [b EXCEPT !.phase = "ready", !.at = Len(INDEXES)]
          ELSE LET k == CHOOSE k \in missing : \A j \in missing : k <= j
               IN  [b EXCEPT !.phase = "create", !.at = k,
                             !.creates = Append(@, [name |-> INDEXES[k],
                                                    existed |-> INDEXES[k] \in b.existing])]

\* initIndexes' loop, after the entry at position `from`: the next of the
\* three names that existingNames does not include gets a createIndex call,
\* which is awaited; with none left initIndexes resolves.  Each call is noted
\* with whether the service held the index when it was made.
InitLoop(b, from) ==
    LET missing == {k \in (from + 1)..Len(INDEXES) : INDEXES[k] \notin b.listed}
    IN  IF missing = {}
          THEN [b EXCEPT !.phase = "ready", !.at = Len(INDEXES)]
          ELSE LET k == CHOOSE k \in missing : \A j \in missing : k <= j
               IN  [b EXCEPT !.phase = "create", !.at = k,
                             !.creates = Append(@, [name |-> INDEXES[k],
                                                    existed |-> INDEXES[k] \in b.existing])]

\* The script runs from its first line to app.listen.  Without the key the
\* memory is reported disabled; with it initIndexes() runs to its first
\* await: getPinecone(), whose throw rejects the promise (caught and logged),
\* then listIndexes is issued.
ServerLoad(created) ==
    /\ boot.phase = "load"
    /\ IF ~env.PINECONE_API_KEY
         THEN /\ boot' = [boot EXCEPT !.phase = "disabled", !.listening = TRUE,
                                      !.runs = @ + 1]
              /\ pc' = pc
         ELSE LET pc1 == getPinecone(pc, created)
              IN  /\ pc' = pc1
                  /\ boot' = [boot EXCEPT
                          !.phase = IF pc1 = "client" THEN "list" ELSE "failed",
                          !.listening = TRUE, !.runs = @ + 1]
    /\ UNCHANGED <<jsonVars, conc, mem, version, env, reqVars>>

\* listIndexes settles: existingNames is what the service holds, and the loop
\* starts; a failure rejects initIndexes' promise (caught and logged).
InitListSettled(ok) ==
    /\ boot.phase = "list"
    /\ boot' = IF ok THEN InitLoop([boot EXCEPT !.listed = boot.existing], 0)
                     ELSE [boot EXCEPT !.phase = "failed"]
    /\ UNCHANGED <<jsonVars, conc, mem, version, env, pc, reqVars>>

\* A createIndex settles: the service holds the index and the loop goes on;
\* a failure rejects initIndexes' promise and the names left are not tried.
InitCreateSettled(ok) ==
    /\ boot.phase = "create"
    /\ boot' = IF ok
                 THEN InitLoop([boot EXCEPT !.existing = @ \cup {INDEXES[boot.at]}], boot.at)
                 ELSE [boot EXCEPT !.phase = "failed"]
    /\ UNCHANGED <<jsonVars, conc, mem, version, env, pc, reqVars>>

\* The process ends and a new one is started: nothing of the old one is
\* left but the service's indexes; `ready` counts the runs of initIndexes
\* that resolved, `made` holds the names they called createIndex for.
ProcessRestart ==
    /\ boot.phase \in {"ready", "failed", "disabled"}
    /\ boot.runs < MaxRuns
    /\ boot' = [NoBoot EXCEPT !.existing = boot.existing, !.runs = boot.runs,
                              !.ready = boot.ready + (IF boot.phase = "ready" THEN 1 ELSE 0),
                              !.made = boot.made \cup {boot.creates[k].name : k \in DOMAIN boot.creates}]
    /\ pc' = "null"
    /\ req' = NoReq
    /\ phase' = "idle"
    /\ calls' = <<>>
    /\ resp' = NoResp
    /\ UNCHANGED <<jsonVars, conc, mem, version, env, stage1, stage2, fallback, pending,
                   storeSt, findSt, storeRes, similarRes, deals, matches, sent>>

\* The process, once it listens, serves GET /api/health.
NextBoot ==
    \/ \E created \in BOOLEAN : ServerLoad(created)
    \/ \E ok \in BOOLEAN : InitListSettled(ok)
    \/ \E ok \in BOOLEAN : InitCreateSettled(ok)
    \/ ProcessRestart
    \/ \E created \in BOOLEAN : boot.listening /\ HealthStart(created)
    \/ boot.listening /\ HealthStatsSettled

SpecBoot == InitBoot /\ [][NextBoot]_vars

\* =========================================================== the deals index
\* storeDeal writes records to the deals index and findSimilarDeals reads
\* them back, for any deals and any order of the matches.

\* The identifiers deals are stored under, and the values of final.deal_stage
\* (absent: stored as 'unknown').
DealIds == {"thread_1", "thread_2", "thread_3"}
DealStages == {"absent", "closed_won", "closed_lost"}

\* A v1.0.1 process with both credentials and its client, the index empty.
InitDeals ==
    /\ Init
    /\ version = "v1.0.1"
    /\ env = [OPENROUTER_API_KEY |-> TRUE, PINECONE_API_KEY |-> TRUE]
    /\ pc = "client"

\* The record storeDeal upserts: id and the metadata the result is built from.
DealRecord(threadId, stage) ==
    LET dealStage == IF stage = "absent" THEN "unknown" ELSE stage
    IN  [thread_id |-> threadId, deal_stage |-> dealStage,
         is_won |-> (dealStage = "closed_won"),
         is_lost |-> (dealStage = "closed_lost")]

\* The orders in which index.query may return the records of a set.
Orders(S) ==
    {o \in [1..Cardinality(S) -> S] : \A i, j \in 1..Cardinality(S) : o[i] = o[j] => i = j}

\* Mutant of FoundDeals: every match that is not won counts as lost.
FoundDeals_LostIsNotWon(ms) ==
    LET won == SelectSeq(ms, LAMBDA m : m.is_won)
        lost == SelectSeq(ms, LAMBDA m : ~m.is_won)
        other == SelectSeq(ms, LAMBDA m : ~m.is_won /\ ~m.is_lost)
    IN  [queried |-> TRUE, success |-> TRUE, total_matches |-> Len(ms),
         won_matches |-> Len(won), lost_matches |-> Len(lost),
         won |-> won, lost |-> lost, other |-> other, all |-> ms]

\* findSimilarDeals' result for the matches ms, mapped from the records'
\* metadata in the order index.query gave them.
FoundDeals(ms) ==
    LET won == SelectSeq(ms, LAMBDA m : m.is_won)
        lost == SelectSeq(ms, LAMBDA m : m.is_lost)
        other == SelectSeq(ms, LAMBDA m : ~m.is_won /\ ~m.is_lost)
    IN  [queried |-> TRUE, success |-> TRUE, total_matches |-> Len(ms),
         won_matches |-> Len(won), lost_matches |-> Len(lost),
         won |-> won, lost |-> lost, other |-> other, all |-> ms]

\* storeDeal(threadId, analysisResult) has upserted its record, in the place
\* of any record of that id.
DealStored(threadId, stage) ==
    /\ mem' = [mem EXCEPT !.index = {d \in @ : d.thread_id # threadId}
                                     \cup {DealRecord(threadId, stage)}]
    /\ UNCHANGED <<appVars, jsonVars, conc, boot>>

\* findSimilarDeals(analysisResult, 5) has run: index.query returned the
\* records of the index (fewer than topK) in some order, or it failed.
DealsQueried(ok, order) ==
    /\ mem' = [mem EXCEPT !.found = IF ok THEN FoundDeals(order)
                                          ELSE [NoFound EXCEPT !.queried = TRUE]]
    /\ UNCHANGED <<appVars, jsonVars, conc, boot>>

NextDeals ==
    \/ \E threadId \in DealIds, stage \in DealStages : DealStored(threadId, stage)
    \/ \E ok \in BOOLEAN, order \in Orders(mem.index) : DealsQueried(ok, order)

SpecDeals == InitDeals /\ [][NextDeals]_vars

\* ================================================================ properties
Range(f) == {f[i] : i \in DOMAIN f}

\* The chat-completion calls of the request, in order.
ChatCalls == SelectSeq(calls, LAMBDA c : c.svc = "chat")
Issued(op) == Call("chat", op) \in Range(calls)
Times(op) == Cardinality({i \in DOMAIN calls : calls[i] = Call("chat", op)})

\* The request passed validation: the handler went on to Stage-1.
Validated == stage1.state # "none"

\* The number of messages Stage-1 returned, as the handler counts them.
Stage1Count == JsLength(OrEmpty(stage1.parsed.emails))
Stage1Threw == stage1.state = "threw"
Stage1NoMessages == stage1.state = "returned" /\ ~(Stage1Count > 0)
Stage1Messages == stage1.state = "returned" /\ Stage1Count > 0

\* ---- C1
\* C1 (as claimed, for every /api/analyze handler of the repository): when the
\* Stage-1 call throws or returns zero messages, the Fallback call has been
\* issued and the response, if any, is not the Stage-1 error.
C1_Stage1FailureFallsBack ==
    (Stage1Threw \/ Stage1NoMessages) => (Issued("fallback") /\ resp.origin # "stage1")

\* C1, restricted to the v1.0.1 handler (holds; recorded for the record).
C1_Stage1FailureFallsBack_v101 ==
    version = "v1.0.1" => C1_Stage1FailureFallsBack

\* ---- C2
\* C2: once Stage-2 has been issued the Fallback call is never issued, and a
\* Stage-2 call that failed has ended the request with 500 {error}, the error
\* being the Stage-2 error.
C2_Stage2FailureIsTerminal ==
    /\ Issued("stage2") => ~Issued("fallback")
    /\ stage2.state = "threw" =>
          /\ phase = "done"
          /\ resp = ErrorResp(500, stage2.message, "stage2")
          /\ resp.error # ""

\* C2's case: a request whose Stage-2 call failed, answered 500.
C2_Witness ==
    /\ version = "v1.0.1"
    /\ stage2.state = "threw"
    /\ resp.status = 500
    /\ ~Issued("fallback")

\* ---- C3
\* The entries of Stage-1 are all messages the merge can summarise.
WellFormedMessages ==
    /\ stage1.parsed.emails.kind = "array"
    /\ \A i \in 1..Len(stage1.parsed.emails.items) :
           stage1.parsed.emails.items[i].kind = "msg"

\* C3: a 200 response of /api/analyze has complete = (email_count =
\* analysis_count); and whatever the two counts are, a request whose Stage-2
\* (or Fallback) call returned is answered 200 with email_count = N, the
\* number of Stage-1 messages (of parsed_emails), and analysis_count = the
\* number of per_email entries returned.
C3_CompleteIffCountsAgree ==
    /\ (req.endpoint = "analyze" /\ resp.status = 200) =>
          (resp.complete <=> (resp.email_count = resp.analysis_count))
    /\ (phase = "done" /\ stage2.state = "returned" /\ WellFormedMessages) =>
          /\ resp.status = 200
          /\ resp.email_count = Len(stage1.parsed.emails.items)
          /\ resp.analysis_count = Len(OrEmpty(stage2.parsed.per_email).items)
    /\ (phase = "done" /\ fallback.state = "returned") =>
          /\ resp.status = 200
          /\ resp.email_count = Len(OrEmpty(fallback.parsed.parsed_emails).items)
          /\ resp.analysis_count = Len(OrEmpty(fallback.parsed.per_email).items)

\* C3's case: N = 2 Stage-1 messages, N - 1 = 1 Stage-2 entry, answered 200
\* with complete = false.
C3_Witness ==
    /\ version = "v1.0.1"
    /\ resp.status = 200
    /\ resp.pipeline = "two-stage"
    /\ resp.email_count = 2
    /\ resp.analysis_count = 1
    /\ ~resp.complete

\* ---- C4
\* The reply object the result was built from.
AnalysisReply == IF stage2.state = "returned" THEN stage2.parsed ELSE fallback.parsed

C5_NoCallRepeated ==
    /\ Len(ChatCalls) <= 2
    /\ Times("stage1") <= 1 /\ Times("stage2") <= 1 /\ Times("fallback") <= 1
    /\ ~(Issued("stage2") /\ Issued("fallback"))
    /\ Validated => (Times("stage1") = 1 /\ ChatCalls[1] = Call("chat", "stage1"))
    /\ ~Validated => ChatCalls = <<>>

\* C5's case: both calls of a request failed, and two calls were made.
C5_Witness ==
    /\ version = "v1.0.1"
    /\ Stage1Threw
    /\ fallback.state = "threw"
    /\ ChatCalls = <<Call("chat", "stage1"), Call("chat", "fallback")>>
    /\ phase = "done"

\* ---- C6
\* The memory side effect of the request ran and the request is over.
MemoryRan == req.endpoint = "analyze" /\ phase = "done" /\ pending.status = 200

\* The 200 body the request's model replies determine, memory aside.
ExpectedBody ==
    IF stage2.state = "returned"
      THEN TwoStageResp(MergeResult(stage1.parsed, stage2.parsed), Stage1Count,
                        JsLength(OrEmpty(stage2.parsed.per_email)))
      ELSE FallbackResp(fallback.parsed,
                        JsLength(OrEmpty(fallback.parsed.parsed_emails)),
                        JsLength(OrEmpty(fallback.parsed.per_email)))

\* C6 (as claimed): when storeDeal or findSimilarDeals failed, the response
\* is the same 200 and its memory field has stored = false.
C6_MemoryFailureStoredFalse ==
    (MemoryRan /\ (~storeRes \/ ~similarRes)) =>
        /\ [resp EXCEPT !.memory = DefaultMemory] = ExpectedBody
        /\ resp.memory.stored = FALSE

\* C6 (amended): whatever failed in the memory side effect, the response is
\* the same 200; memory.stored is storeDeal's success (false when storeDeal
\* failed) and a failed findSimilarDeals is reported in memory.similar.
C6_MemoryFailureKeepsOutcome ==
    MemoryRan =>
        /\ [resp EXCEPT !.memory = DefaultMemory] = ExpectedBody
        /\ resp.memory.present
        /\ resp.memory.stored = storeRes
        /\ (resp.memory.similar = "failed") <=> ~similarRes

\* C6's case: both memory operations failed, the request is answered 200.
C6_Witness ==
    /\ MemoryRan
    /\ ~storeRes /\ ~similarRes
    /\ Call("pinecone", "upsert") \in Range(calls)
    /\ resp.status = 200
    /\ resp.memory.stored = FALSE

\* ---- C7
\* C7: a failed Fallback call has ended the request with 500 and a non-empty
\* error; the Fallback call is the last outbound call of the request and no
\* memory operation was started.
C7_FallbackFailureIsFatal ==
    fallback.state = "threw" =>
        /\ phase = "done"
        /\ resp.status = 500
        /\ resp.error # ""
        /\ resp.origin = "fallback"
        /\ calls = <<Call("chat", "stage1"), Call("chat", "fallback")>>
        /\ storeSt = "idle" /\ findSt = "idle"

\* C7's case: Stage-1 returned no messages, then the Fallback call failed.
C7_Witness ==
    /\ Stage1NoMessages
    /\ fallback.state = "threw"
    /\ resp.status = 500

\* ---- C8
\* C8 (as claimed): a validated request that is over ended in one of the three
\* outcomes; it is two-stage exactly when Stage-1 returned a message and
\* Stage-2 succeeded, fallback-single exactly when Stage-1 threw or returned
\* none and the Fallback call succeeded.
C8_ThreeOutcomes ==
    (version = "v1.0.1" /\ Validated /\ phase = "done") =>
        /\ \/ resp.status = 200 /\ resp.pipeline \in {"two-stage", "fallback-single"}
           \/ resp.status = 500 /\ resp.pipeline = "undefined"
        /\ (resp.pipeline = "two-stage") <=>
              (Stage1Messages /\ stage2.state = "returned")
        /\ (resp.pipeline = "fallback-single") <=>
              ((Stage1Threw \/ Stage1NoMessages) /\ fallback.state = "returned")

\* ---- C9
\* The text is missing, empty or made of whitespace only.
BlankText(t) ==
    \/ t.type = "undefined"
    \/ t.type = "string" /\ \A i \in 1..Len(t.chars) : t.chars[i] \in Whitespace

NoTextResp == ErrorResp(400, "No email text provided", "validation")

\* C9 (as claimed): a blank text is answered 400 "No email text provided"
\* with no outbound call, whatever the configuration.
C9_BlankTextIs400 ==
    (req.endpoint = "analyze" /\ BlankText(req.text)) =>
        (phase = "done" /\ resp = NoTextResp /\ calls = <<>>)

\* C9 (amended): a blank text is answered at once with no outbound call: 400
\* "No email text provided" when OPENROUTER_API_KEY is set, and the 500 of
\* the credential check, which comes first, when it is not.
C9_BlankTextNoOutboundCall ==
    (req.endpoint = "analyze" /\ BlankText(req.text)) =>
        /\ phase = "done"
        /\ calls = <<>>
        /\ resp = IF env.OPENROUTER_API_KEY
                    THEN NoTextResp
                    ELSE ErrorResp(500, "Server missing OPENROUTER_API_KEY", "config")

\* C9's case: a whitespace-only text, answered 400.
C9_Witness ==
    /\ version = "v1.0.1"
    /\ req.endpoint = "analyze"
    /\ req.text = Text(<<"\t", "\n">>)
    /\ resp.status = 400

\* ---- C10
MemoryEndpoints == {"memory/similar", "memory/cpp", "memory/cpp/:userId", "memory/stats"}

\* C10: /api/analyze without OPENROUTER_API_KEY is answered 500, and a memory
\* endpoint without PINECONE_API_KEY 503, in the handler's first step, with
\* no outbound call issued and no vector-store client created.
C10_MissingCredentialFirst ==
    /\ (req.endpoint = "analyze" /\ ~env.OPENROUTER_API_KEY) =>
          /\ phase = "done"
          /\ resp = ErrorResp(500, "Server missing OPENROUTER_API_KEY", "config")
          /\ calls = <<>>
    /\ (req.endpoint \in MemoryEndpoints /\ ~env.PINECONE_API_KEY) =>
          /\ phase = "done"
          /\ resp = ErrorResp(503, "Pinecone not configured", "config")
          /\ calls = <<>>
          /\ pc = "null"

\* C10's case: a similarity query on a server without PINECONE_API_KEY.
C10_Witness ==
    /\ req.endpoint = "memory/similar"
    /\ ~env.PINECONE_API_KEY
    /\ resp.status = 503

\* ---- C11
\* C11 (as claimed, for every /api/analyze handler of the repository): a
\* response of /api/analyze has status 200, 400 or 500; 400 is sent only for
\* a missing or blank text; 500 only for a missing server credential or an
\* exception of the pipeline; and an error response carries a non-empty
\* error string.
C11_OnlyThreeStatuses ==
    (req.endpoint = "analyze" /\ resp.status # 0) =>
        /\ resp.status \in {200, 400, 500}
        /\ resp.status = 400 => BlankText(req.text)
        /\ resp.status = 500 =>
              (resp.origin = "config" <=> ~env.OPENROUTER_API_KEY)
        /\ resp.status # 200 => resp.error # ""

\* C11, restricted to the v1.0.1 handler and to a text that is absent or a
\* string (holds; recorded for the record).  For a truthy non-string text
\* the handler's promise rejects (see Rejected).
C11_OnlyThreeStatuses_v101 ==
    (version = "v1.0.1" /\ req.text.type \in {"undefined", "string"}) => C11_OnlyThreeStatuses

\* ---- C12
\* The embedding calls with which storeDeal and findSimilarDeals start.
MemoryStarts == {Call("embed", "storeDeal"), Call("embed", "findSimilarDeals")}

\* C12: when the memory side effect of /api/analyze runs, storeDeal and
\* findSimilarDeals are started together (neither is ever started without the
\* other, and both first calls are issued before any vector-store call), no
\* response is sent while either is unsettled, and the memory field of the
\* response is built from both results once both have settled.
C12_StoreAndFindConcurrent ==
    req.endpoint = "analyze" =>
        /\ (storeSt = "idle") <=> (findSt = "idle")
        /\ \A i, j \in DOMAIN calls :
              (calls[i].svc = "pinecone" /\ calls[j] \in MemoryStarts) => j < i
        /\ phase = "memory" => resp = NoResp
        /\ resp.memory.similar \notin {"undefined", "null"} =>
              /\ storeSt = "done"
              /\ findSt = "done"
              /\ resp.memory = MemoryResult(storeRes, similarRes)
        /\ (phase = "done" /\ pending.status = 200) =>
              resp.memory = MemoryResult(storeRes, similarRes)

\* C12's case: both operations ran to the vector store and the response, with
\* its memory field, was sent.
C12_Witness ==
    /\ req.endpoint = "analyze"
    /\ resp.status = 200
    /\ resp.memory.present
    /\ Call("pinecone", "upsert") \in Range(calls)
    /\ Call("pinecone", "query") \in Range(calls)

\* ---- C13
\* C13 (as claimed): the similar deals returned to an /api/analyze request are
\* those stored before it, whether its own upsert or its query reached the
\* index first.
C13_SimilarIndependentOfStore ==
    (req.endpoint = "analyze" /\ findSt = "done" /\ similarRes) => matches = PastDeals

\* ============================================ properties of the gateway alone
\* The completion's content, and whether it holds both braces.
Content == completion.content
HasBraces(raw) == indexOf(raw, "{") >= 0 /\ lastIndexOf(raw, "}") >= 0

\* The cleaner ran on a non-empty content and its outcome is in gwResult.
Cleaned(which) ==
    /\ cleaner = which
    /\ gwPhase = "done"
    /\ Content # <<>>
    /\ which = "mvp" \/ completion.ok

\* ---- C14
\* C14: for every content that lacks a "{" or lacks a "}", cleanJSON throws
\* its "No JSON object found" Error with no parse attempted, and callLLM
\* passes that Error to its caller as an ordinary exception.
C14_NoBraceFailsFirst ==
    (Cleaned("v1.0.1") /\ ~HasBraces(Content)) =>
        gwResult = Thrown("No JSON object found in response", <<>>, <<>>)

\* C14's case: a content with an opening brace and no closing one.
C14_Witness ==
    /\ Cleaned("v1.0.1")
    /\ Content = <<"{", "x">>
    /\ gwResult.state = "threw"

\* ---- C15
\* C15 (as claimed): a valid JSON object text that was fenced (with or without
\* a json tag) and given trailing commas is recovered to the object the text
\* itself parses to; and a valid JSON object text is returned as its direct
\* parse, by the first tier.
C15_FencedCommasSameAsDirect ==
    Cleaned("v1.0.1") =>
        /\ \A v \in ValidTexts, tag \in FenceTags :
              Content = Fenced(tag, WithTrailingCommas(v)) =>
                  /\ gwResult.state = "returned"
                  /\ gwResult.parsed = JSONparse(v).val
        /\ Content \in ValidTexts =>
              /\ gwResult.state = "returned"
              /\ gwResult.parsed = JSONparse(Content).val
              /\ gwResult.tries = <<1>>

\* A text one of whose strings holds a comma followed by a closing bracket.
CommaBracketInString(v) == v = Obj(Key("a") \o Lit(<<",", "}">>))

\* C15 for the texts whose strings hold no such pair (holds; recorded for the
\* record).
C15_FencedCommasSameAsDirect_Plain ==
    Cleaned("v1.0.1") =>
        /\ \A v \in ValidTexts, tag \in FenceTags :
              (Content = Fenced(tag, WithTrailingCommas(v)) /\ ~CommaBracketInString(v)) =>
                  /\ gwResult.state = "returned"
                  /\ gwResult.parsed = JSONparse(v).val
        /\ Content \in ValidTexts =>
              /\ gwResult.state = "returned"
              /\ gwResult.parsed = JSONparse(Content).val
              /\ gwResult.tries = <<1>>

\* ---- C16
\* The texts the four tiers of cleanJSON parse, in order; the fourth exists
\* when the brace scan found a span.
TierTexts(raw) ==
    LET t1 == Sliced(raw)
        t2 == RemoveTrailingCommas(t1)
        t3 == EscapeControls(t2)
        span == BalancedSpan(raw)
    IN  <<t1, t2, t3>>
        \o (IF span.found THEN <<EscapeControls(RemoveTrailingCommas(span.text))>> ELSE <<>>)

\* C16: cleanJSON tries its tiers in the order direct parse, trailing-comma
\* removal, control-character escaping, balanced-brace extraction; it returns
\* the parse of the first tier whose text parses, having tried exactly the
\* tiers up to that one; and it throws only after every tier failed.
C16_TiersInOrder ==
    (Cleaned("v1.0.1") /\ HasBraces(Content)) =>
        LET texts == TierTexts(Content)
            good == {k \in 1..Len(texts) : JSONparse(texts[k]).ok}
            first == CHOOSE k \in good : \A j \in good : k <= j
        IN  IF good = {}
              THEN /\ gwResult.state = "threw"
                   /\ gwResult.tries = [k \in 1..Len(texts) |-> k]
              ELSE /\ gwResult.state = "returned"
                   /\ gwResult.tries = [k \in 1..first |-> k]
                   /\ gwResult.parsed = JSONparse(texts[first]).val

\* C16's case: the first three tiers failed and the fourth one parsed.
C16_Witness ==
    /\ Cleaned("v1.0.1")
    /\ gwResult.state = "returned"
    /\ gwResult.tries = <<1, 2, 3, 4>>

\* ---- C17
\* C17 (as claimed): a text that is a valid JSON object except that control
\* characters stand raw inside its strings is recovered to that object.
C17_RawControlsRecovered ==
    Cleaned("v1.0.1") =>
        \A v \in ValidTexts :
            Content = WithRawControls(v) =>
                /\ gwResult.state = "returned"
                /\ gwResult.parsed = JSONparse(v).val

\* ---- C18
\* The first balanced {...} span of a text: from the first opening brace at
\* depth zero (every brace opened before it is closed before it) that some
\* closing brace balances, to the first position where the depth is zero again.
Balance(raw, from, to) ==
    Cardinality({k \in from..to : raw[k] = "{"}) - Cardinality({k \in from..to : raw[k] = "}"})
ClosesAt(raw, p, e) ==
    /\ raw[e] = "}"
    /\ Balance(raw, p, e) = 0
    /\ \A k \in p..(e - 1) : Balance(raw, p, k) > 0
AtDepthZero(raw, p) ==
    \A q \in 1..(p - 1) : raw[q] = "{" => \E e \in q..(p - 1) : ClosesAt(raw, q, e)
Opens(raw) ==
    {p \in 1..Len(raw) : /\ raw[p] = "{"
                         /\ AtDepthZero(raw, p)
                         /\ \E e \in p..Len(raw) : ClosesAt(raw, p, e)}
FirstBalanced(raw) ==
    LET p == CHOOSE q \in Opens(raw) : \A r \in Opens(raw) : q <= r
        e == CHOOSE k \in p..Len(raw) : ClosesAt(raw, p, k)
    IN  SubSeq(raw, p, e)

\* C18 (as claimed, for the two cleaners that have the tier): when the earlier
\* tiers failed and the completion's content holds a balanced {...} span, the
\* last tier parses the first such span of that content after trailing-comma
\* removal and control-character escaping, and its parse decides the outcome.
C18_LastTierParsesFirstSpan ==
    ((Cleaned("v1.0.1") \/ Cleaned("mvp")) /\ HasBraces(Content)
        /\ \A k \in 1..3 : ~JSONparse(TierTexts(Content)[k]).ok
        /\ Opens(Content) # {}) =>
        LET last == JSONparse(EscapeControls(RemoveTrailingCommas(FirstBalanced(Content))))
        IN  IF last.ok
              THEN gwResult.state = "returned" /\ gwResult.parsed = last.val
              ELSE gwResult.state = "threw"

\* ---- C19
\* C19 (as claimed, for every cleaner): when every tier failed, the Error
\* carries the first characters of the text that could not be parsed, at most
\* 300 of them (all of a shorter text, before the MVP's closing dots).
C19_ErrorCarriesExcerpt ==
    (\E which \in Cleaners : Cleaned(which) /\ gwResult.state = "threw"
                                /\ gwResult.tries # <<>>) =>
        /\ Len(gwResult.excerpt) <= ExcerptLen
        /\ \E n \in {MvpExcerptLen, ExcerptLen} :
              gwResult.excerpt \in {slice(Sliced(Content), 0, n),
                                    slice(Sliced(Content), 0, n) \o <<".", ".", ".">>}

\* C19, for cleanJSON of v1.0.1 and the MVP's cleaner (holds; recorded for
\* the record).
C19_ErrorCarriesExcerpt_v101 ==
    cleaner # "v1.0.0" => C19_ErrorCarriesExcerpt

C21_ParsedEmailsOneIndexed ==
    (phase = "done" /\ resp.status = 200 /\ resp.pipeline = "two-stage") =>
        \A i \in 1..Len(resp.result.parsed_emails.items) :
            resp.result.parsed_emails.items[i].index = i

\* ---- C22
\* C22: Stage-2 is called only after Stage-1 has returned with at least one
\* message, as the request's second call; its user message holds one block per
\* Stage-1 message, in Stage-1's order, and states the number of Stage-1
\* messages as the count.
C22_Stage2AfterStage1 ==
    /\ stage2.state # "none" => Stage1Messages
    /\ \A i \in DOMAIN sent :
          sent[i].op = "stage2" =>
              LET emails == stage1.parsed.emails.items
                  message == sent[i].message
              IN  /\ Stage1Messages
                  /\ i = 2 /\ sent[1].op = "stage1"
                  /\ message.count = Len(emails)
                  /\ Len(message.thread) = Len(emails)
                  /\ \A k \in 1..Len(emails) :
                        /\ message.thread[k].entry = emails[k]
                        /\ message.thread[k].of = Len(emails)

\* C22's case: Stage-1 returned two messages and Stage-2 was called with them.
C22_Witness ==
    /\ version = "v1.0.1"
    /\ Stage1Count = 2
    /\ stage2.state = "returned"
    /\ Len(sent) = 2
    /\ sent[2].message.count = 2

\* ---- C23
\* The five names of the model table.
ModelNames == {"haiku", "sonnet", "flash-lite", "flash", "pro"}

\* C23 (as claimed): the Stage-2 and Fallback calls use the table's entry for
\* the request's model key when the key is one of the five names and the
\* 'sonnet' entry for every other key, as does the response's model field;
\* the Stage-1 call always uses the 'flash-lite' entry.
C23_ModelFromTable ==
    LET expected == IF req.model \in ModelNames THEN MODELS(req.model) ELSE MODELS("sonnet")
    IN  /\ \A i \in DOMAIN sent :
              sent[i].model = IF sent[i].op = "stage1" THEN MODELS("flash-lite") ELSE expected
        /\ (req.endpoint = "analyze" /\ phase = "done" /\ resp.status = 200) =>
              resp.model = expected

\* C23 for the keys that name nothing the table inherits (holds; recorded
\* for the record).
C23_ModelFromTable_OwnKeys ==
    req.model \notin InheritedKeys => C23_ModelFromTable

\* ---- C30
\* C30 (as claimed): a validated /api/analyze request of v1.0.1 is answered
\* 500 only when its Stage-2 call or its Fallback call failed.
C30_HardFailureNeedsLaterCall ==
    (version = "v1.0.1" /\ req.endpoint = "analyze" /\ Validated
        /\ phase = "done" /\ resp.status = 500) =>
        (stage2.state = "threw" \/ fallback.state = "threw")

\* C30 for the Stage-1 replies whose emails field is absent, no list, or a
\* list of well-formed messages (holds; recorded for the record).
C30_HardFailureNeedsLaterCall_WellFormed ==
    (stage1.state = "returned" /\ Stage1Count > 0 /\ ~WellFormedMessages) \/
        C30_HardFailureNeedsLaterCall

\* ---- C28
\* The result the handler assembled from the model outputs, before the
\* memory side effect.
AssembledResult ==
    IF stage2.state = "returned" THEN MergeResult(stage1.parsed, stage2.parsed)
    ELSE fallback.parsed

\* C28: storeDeal and findSimilarDeals leave the result they are given as it
\* was assembled: while they run, and in the response sent after them, the
\* result is the one assembled from the request's own model outputs.
C28_MemoryLeavesResult ==
    /\ phase = "memory" => pending.result = AssembledResult
    /\ (req.endpoint = "analyze" /\ phase = "done" /\ resp.status = 200) =>
          resp.result = AssembledResult

\* C28's case: a two-stage result with analyses was stored and searched, and
\* the response was sent.
C28_Witness ==
    /\ phase = "done"
    /\ resp.pipeline = "two-stage"
    /\ resp.memory.stored
    /\ resp.memory.similar = "matches"
    /\ Len(resp.result.per_email.items) = 2

\* ---- C29
\* C29: the answer of GET /api/health always has HTTP status 200 and status
\* 'ok', and for each credential a boolean that is true exactly when the
\* credential is set, whatever became of the vector-store client and its
\* stats; the handler never rejects and never sends an error.
C29_HealthAlwaysOk ==
    req.endpoint = "health" =>
        /\ phase \in {"health", "done"}
        /\ phase = "done" =>
              /\ resp.status = 200
              /\ resp.error = ""
              /\ resp.health.status = "ok"
              /\ resp.health.hasOpenRouterKey = env.OPENROUTER_API_KEY
              /\ resp.health.hasPineconeKey = env.PINECONE_API_KEY
              /\ resp.health.pinecone = "disabled" <=> ~env.PINECONE_API_KEY

\* C29's cases: the health check answered without the OpenRouter credential,
\* the vector-store client having failed to construct.
C29_Witness ==
    /\ req.endpoint = "health"
    /\ phase = "done"
    /\ ~env.OPENROUTER_API_KEY
    /\ resp.health.pinecone = "failed"

\* ---- C27
\* The upstream text an Error of callLLM quotes: the body of a non-success
\* answer, or the text cleanJSON could not parse.
UpstreamText ==
    IF ~completion.ok THEN completion.errText
    ELSE IF Content # <<>> /\ HasBraces(Content) THEN Sliced(Content)
    ELSE <<>>

Alone(l) ==
    LET s1 == l.stage1.parsed
        emails == OrEmpty(s1.emails)
    IN  IF l.stage1.state = "returned" /\ JsLength(emails) > 0
          THEN IF CleanThreadThrows(emails) THEN ErrorResp(500, "TypeError", "cleanThread")
               ELSE IF l.stage2.state = "threw" THEN ErrorResp(500, l.stage2.message, "stage2")
               ELSE IF MergeThrows(emails) THEN ErrorResp(500, "TypeError", "merge")
               ELSE ConcTwoStageBody(l.model, s1, l.stage2.parsed)
        ELSE IF l.fallback.state = "threw" THEN ErrorResp(500, l.fallback.message, "fallback")
        ELSE ConcFallbackBody(l.model, l.fallback.parsed)

\* C24: whatever the interleaving of two concurrent requests, the status,
\* result, pipeline, email_count, analysis_count and complete of each
\* response are those the request has when served alone with the same model
\* outputs.
C24_RequestsIndependent ==
    \A r \in Requests :
        conc.reqs[r].phase = "done" =>
            LET body == conc.reqs[r].body
                alone == Alone(conc.reqs[r])
            IN  /\ body.status = alone.status
                /\ body.result = alone.result
                /\ body.pipeline = alone.pipeline
                /\ body.email_count = alone.email_count
                /\ body.analysis_count = alone.analysis_count
                /\ body.complete = alone.complete

\* C24's case: both requests were answered, one by the two-stage pipeline
\* with two messages and one by the fallback, both having used the memory.
C24_Witness ==
    /\ conc.reqs[1].phase = "done"
    /\ conc.reqs[2].phase = "done"
    /\ conc.reqs[1].body.pipeline = "two-stage"
    /\ conc.reqs[1].body.email_count = 2
    /\ conc.reqs[2].body.pipeline = "fallback-single"
    /\ conc.reqs[1].body.memory.stored
    /\ conc.reqs[2].body.memory.stored

\* ---- C25
\* C25: at most one vector-store client is ever constructed; every client a
\* getPinecone() call returned is the one `pc` holds; and without the
\* credential `pc` is unset and a getPinecone() call throws, leaving it unset.
C25_OneClient ==
    /\ conc.built <= 1
    /\ conc.pc \in {0, 1}
    /\ conc.pc = 0 => conc.built = 0
    /\ \A r \in Requests :
          /\ conc.reqs[r].storeClient \in {0, conc.pc}
          /\ conc.reqs[r].findClient \in {0, conc.pc}
    /\ ~env.PINECONE_API_KEY =>
          /\ conc.pc = 0
          /\ \A created \in BOOLEAN :
                /\ getPineconeOf(conc, created).client = 0
                /\ getPineconeOf(conc, created).pc = 0

\* C25's case: the client was created lazily by a request (the construction
\* for its storeDeal threw, the one for its findSimilarDeals did not) while
\* the other request's memory operations, running with it, were given the
\* same client.
C25_Witness ==
    /\ conc.reqs[1].phase = "memory"
    /\ conc.reqs[2].phase = "memory"
    /\ conc.reqs[1].storeClient = 0
    /\ conc.reqs[1].findClient = 1
    /\ conc.reqs[2].storeClient = 1
    /\ conc.reqs[2].findClient = 1

\* ---- C26
\* Request q's query was issued when request r's deal was stored, and both
\* requests have the same analysis.
QueriedAfterStore(q, r) ==
    /\ conc.reqs[q].findSt = "done"
    /\ conc.reqs[q].findOk
    /\ conc.reqs[r].threadId \in conc.reqs[q].visible
    /\ conc.reqs[q].body.result = conc.reqs[r].body.result

\* C26 (as claimed): a query issued after a deal of the same analysis was
\* stored returns that deal's thread id with at least the minimum similarity.
C26_RoundTrip ==
    \A q \in Requests, r \in Requests :
        QueriedAfterStore(q, r) =>
            \E m \in conc.reqs[q].matches :
                /\ m.thread_id = conc.reqs[r].threadId
                /\ m.similarity \in {"same", "atleast"}

\* C26 without the similarity: the stored deal's thread id is among the
\* matches (holds; recorded for the record).
C26_RoundTrip_Listed ==
    \A q \in Requests, r \in Requests :
        QueriedAfterStore(q, r) =>
            \E m \in conc.reqs[q].matches : m.thread_id = conc.reqs[r].threadId

\* ---- C31
\* The handler of the request has run to its end: it sent a response, or its
\* promise rejected.
HandlerOver == phase \in {"done", "rejected"}

\* C31 (as claimed): every POST /api/analyze request to the v1.0.1 handler is
\* answered, whatever its body: once the handler has run to its end, a
\* response has been sent.
C31_AlwaysAnswered ==
    (version = "v1.0.1" /\ req.endpoint = "analyze" /\ HandlerOver) => resp.status # 0

\* C31 for a text that is absent or a string (holds; recorded for the record).
C31_AlwaysAnswered_StringText ==
    (version = "v1.0.1" /\ req.endpoint = "analyze" /\ HandlerOver
        /\ req.text.type \in {"undefined", "string"})
    => resp.status # 0

\* ---- C32
\* Request r's storeDeal has upserted its deal.
Stored(r) == conc.reqs[r].storeSt = "done" /\ conc.reqs[r].storeOk

\* C32 (as claimed): two requests that both stored used distinct thread
\* identifiers, and the index holds the record of each under its identifier.
C32_DistinctThreadIds ==
    (Stored(1) /\ Stored(2)) =>
        /\ conc.reqs[1].threadId # conc.reqs[2].threadId
        /\ \A r \in Requests :
              [id |-> conc.reqs[r].threadId,
               text |-> dealSummary(conc.reqs[r].body.result)] \in conc.index

\* C32 for requests that read the clock in different milliseconds (holds;
\* recorded for the record).
C32_DistinctThreadIds_ApartInTime ==
    (Stored(1) /\ Stored(2) /\ conc.reqs[1].threadId # conc.reqs[2].threadId) =>
        \A r \in Requests :
            [id |-> conc.reqs[r].threadId,
             text |-> dealSummary(conc.reqs[r].body.result)] \in conc.index

\* ---- C33
\* The request's handler called storeDeal and findSimilarDeals.
MemoryInvoked == req.endpoint = "analyze" /\ pending.status = 200
MemoryCalls ==
    {Call("embed", "storeDeal"), Call("embed", "findSimilarDeals"),
     Call("pinecone", "upsert"), Call("pinecone", "query")}
CallCount(c) == Cardinality({i \in DOMAIN calls : calls[i] = c})

\* C33: in a /api/analyze request of v1.0.1, each memory operation makes each
\* of its outbound calls at most once; the operations are invoked only with
\* the vector-store credential set, on the assembled result, whose final
\* assessment has a deal stage; a request in which they were invoked is not
\* answered 400 or 500; and a success in which they were not invoked has the
\* memory field {stored: false, similar: null}.
C33_MemoryGatedOnce ==
    (version = "v1.0.1" /\ req.endpoint = "analyze") =>
        /\ \A c \in MemoryCalls : CallCount(c) <= 1
        /\ (\E c \in MemoryCalls : CallCount(c) > 0) => MemoryInvoked
        /\ (storeSt # "idle" \/ findSt # "idle") => MemoryInvoked
        /\ MemoryInvoked =>
              /\ env.PINECONE_API_KEY
              /\ pending.result = AssembledResult
              /\ pending.result.final = "staged"
              /\ storeSt # "idle" /\ findSt # "idle"
              /\ resp.status \in {0, 200}
        /\ (resp.status = 200 /\ ~MemoryInvoked) => resp.memory = DefaultMemory
        /\ (resp.status = 200 /\ MemoryInvoked) => resp.memory # DefaultMemory

\* C33's cases: a success with the credential set whose result has no deal
\* stage (the operations were not invoked), and a success whose operations
\* ran to their last call.
C33_Witness ==
    /\ version = "v1.0.1" /\ req.endpoint = "analyze"
    /\ resp.status = 200
    /\ env.PINECONE_API_KEY
    /\ \/ ~MemoryInvoked /\ resp.result.final = "nostage" /\ resp.pipeline = "two-stage"
       \/ MemoryInvoked /\ CallCount(Call("pinecone", "upsert")) = 1
                        /\ CallCount(Call("pinecone", "query")) = 1

\* ---- C34
\* The number of entries of a list-valued field (none when it is absent).
ListLen(v) == IF v.kind = "array" THEN Len(v.items) ELSE 0

\* C34: the Fallback call of the v1.0.1 handler is made with the caller's
\* analysis model and with the request's pasted text, no count and no clean
\* thread, whatever Stage-1 returned; the fallback response carries the
\* recovered object as it is, and its counts are the lengths of that object's
\* parsed_emails and per_email lists.
C34_FallbackFromRawText ==
    version = "v1.0.1" =>
        /\ \A i \in DOMAIN sent :
              sent[i].op = "fallback" =>
                  /\ sent[i].message.text = req.text
                  /\ sent[i].message.text.type = "string"
                  /\ sent[i].message.count = Undefined
                  /\ sent[i].message.thread = <<>>
                  /\ sent[i].model = analysisModel(req.model)
                  /\ req.model \in ModelNames => sent[i].model = MODELS(req.model)
                  /\ req.model # "flash-lite" => sent[i].model # preprocessModel
        /\ (resp.status = 200 /\ resp.pipeline = "fallback-single") =>
              /\ resp.result = fallback.parsed
              /\ resp.model = analysisModel(req.model)
              /\ resp.email_count = ListLen(fallback.parsed.parsed_emails)
              /\ resp.analysis_count = ListLen(fallback.parsed.per_email)

\* C34's case: Stage-1 returned an object with an empty list of messages, the
\* Fallback was called with the model the caller chose and answered with two
\* parsed emails and one analysis.
C34_Witness ==
    /\ version = "v1.0.1"
    /\ stage1.state = "returned"
    /\ stage1.parsed.emails = Arr(<<>>)
    /\ req.model = "haiku"
    /\ resp.status = 200
    /\ resp.pipeline = "fallback-single"
    /\ resp.email_count = 2
    /\ resp.analysis_count = 1

\* ---- C35
\* C35 (as claimed): every 200 response of the v1.0.1 /api/analyze handler
\* reports an email_count of at least 1.
C35_SuccessHasMessages ==
    (version = "v1.0.1" /\ req.endpoint = "analyze" /\ resp.status = 200) =>
        resp.email_count >= 1

\* C35 on the two-stage path alone (holds; recorded for the record).
C35_SuccessHasMessages_TwoStage ==
    (version = "v1.0.1" /\ req.endpoint = "analyze" /\ resp.status = 200
        /\ resp.pipeline = "two-stage")
    => resp.email_count >= 1

\* ---- C36
\* C36: initIndexes calls createIndex only for the three fixed names, only
\* for a name its listing did not include, for no name twice and for no
\* index the service held at the time; when it has resolved the service
\* holds all three; a run after one that resolved makes no createIndex call;
\* and whatever became of initIndexes, the process listens from the end of
\* its load on.
C36_CreateIfAbsent ==
    /\ \A k \in DOMAIN boot.creates :
          /\ boot.creates[k].name \in IndexNames
          /\ boot.creates[k].name \notin boot.listed
          /\ ~boot.creates[k].existed
          /\ \A j \in DOMAIN boot.creates : boot.creates[j].name = boot.creates[k].name => j = k
    /\ boot.phase = "ready" => IndexNames \subseteq boot.existing
    /\ boot.ready > 0 => boot.creates = <<>>
    /\ boot.phase # "load" => boot.listening

\* C36's case: a first run called createIndex for the two names the service
\* did not hold and resolved; the process was started again, its initIndexes
\* resolved without a createIndex call, and it has answered a health request.
C36_Witness ==
    /\ boot.phase = "ready"
    /\ boot.ready = 1
    /\ boot.made = IndexNames \ {INDEXES[2]}
    /\ boot.creates = <<>>
    /\ resp.status = 200
    /\ resp.health.status = "ok"

\* C36's other case: initIndexes failed at its first step, and the process
\* has answered a health request since.
C36_Witness_Failed ==
    /\ boot.phase = "failed"
    /\ boot.listed = {}
    /\ pc = "client"
    /\ resp.status = 200
    /\ resp.health.status = "ok"

\* ---- C37
\* C37: in a successful findSimilarDeals result over records storeDeal wrote,
\* every match of `all` is in exactly one of won, lost and other, the three
\* hold nothing else, won_matches + lost_matches + the length of other is
\* total_matches, which is the length of all; and no record of the index is
\* both won and lost.
C37_WonLostOtherPartition ==
    /\ \A d \in mem.index : ~(d.is_won /\ d.is_lost)
    /\ mem.found.success =>
          LET f == mem.found
              In(list, m) == IF m \in Range(list) THEN 1 ELSE 0
          IN  /\ \A i \in DOMAIN f.all :
                    In(f.won, f.all[i]) + In(f.lost, f.all[i]) + In(f.other, f.all[i]) = 1
              /\ Range(f.won) \cup Range(f.lost) \cup Range(f.other) = Range(f.all)
              /\ f.won_matches = Len(f.won)
              /\ f.lost_matches = Len(f.lost)
              /\ f.won_matches + f.lost_matches + Len(f.other) = f.total_matches
              /\ f.total_matches = Len(f.all)

\* C37's case: a query found a won deal, a lost deal and one that is neither.
C37_Witness ==
    /\ mem.found.success
    /\ mem.found.total_matches = 3
    /\ mem.found.won_matches = 1
    /\ mem.found.lost_matches = 1
    /\ Len(mem.found.other) = 1

====
